---- MODULE Spec2Model ----
(***************************************************************************)
(* llmgraph: the graph execution engine (models/graph.rs), the tool        *)
(* registries (models/tools.rs), RetryAgent (agents/retry.rs) and          *)
(* StatefulAgent (agents/state.rs), ParallelAgent (agents/parallel.rs),    *)
(* RouterAgent (agents/router.rs), ValidatorAgent (agents/validator.rs).   *)
(*                                                                         *)
(* Strings are TLA+ strings, String::push_str / format! are \o.            *)
(* Option<i32> is a record [some, v]; Result<Value, String> is a record    *)
(* [ok, v] whose v is the Ok value or the Err message.                     *)
(***************************************************************************)
EXTENDS Integers, Sequences, FiniteSets, TLC

VARIABLES
    nodes,          \* Graph.nodes: HashMap<i32, Node>
    tool_registry,  \* Graph.tool_registry: the shared registry
    pc,             \* "idle": no run in progress; "running": inside the loop
                    \* of Graph::run; "returned": run has returned `result`
    start_id,       \* arguments of the run in progress
    input,
    current_id,     \* locals of Graph::run
    current_input,
    result,
    calls,          \* history: one record per agent invocation of this run
    primary,        \* two ToolRegistry values of a caller, and the
    secondary,      \* CombinedToolRegistry::new(&primary, &secondary) over them
    op,             \* history: the last call on a registry and what it did
    latest,         \* history: per name, the last register_tool on `primary`
    joined,         \* history: the pairs joined by add_edge since both were added
    mgmt,           \* history: the last management call on the graph, its result
    retry_agent,    \* a RetryAgent: inner, max_retries, strategy, retry_condition
    retry_run,      \* RetryAgent::run in progress: its position, argument,
                    \* locals and return value
    events,         \* history: the sleeps and inner invocations of that run
    stateful,       \* a StatefulAgent: state, processor, max_history
    last_call,      \* history: the last call on the StatefulAgent, its result
    new_agent,      \* a second StatefulAgent, made to load a saved state
    since_empty,    \* history: the inputs run was given since the state was
                    \* last empty, while only run has touched the history
    state_mutex,    \* the Mutex around the StatefulAgent's state, and the run
                    \* that goes on under it, statement by statement
    parallel,       \* a ParallelAgent: agents (each behind its Mutex),
                    \* strategy, timeout
    par_run,        \* ParallelAgent::run in progress: its position, argument,
                    \* futures, timer and return value, with its history
    router,         \* a RouterAgent: routes, default_route, case_sensitive
    routed,         \* history: the last run of the RouterAgent, the agent it
                    \* was called on, and what it returned
    validator,      \* a ValidatorAgent: rules, next_node_on_success,
                    \* next_node_on_failure, strict_mode
    validated       \* history: the last run of the ValidatorAgent, the agent
                    \* it was called on, and what it returned

graphVars == <<nodes, tool_registry>>
mgmtVars == <<joined, mgmt>>
runVars == <<pc, start_id, input, current_id, current_input, result, calls>>
toolVars == <<primary, secondary, op, latest>>
vars == <<nodes, tool_registry, pc, start_id, input, current_id, current_input,
          result, calls, primary, secondary, op, latest, joined, mgmt,
          retry_agent, retry_run, events, stateful, last_call, new_agent, since_empty,
          state_mutex, parallel, par_run, router, routed, validator, validated>>
retryVars == <<retry_agent, retry_run, events>>
stateVars == <<stateful, last_call, new_agent, since_empty, state_mutex>>
\* what a call on the graph, and what a call on a caller's registry, leaves alone
notGraph == <<toolVars, retryVars, stateVars, parallel, par_run, router, routed, validator, validated>>
notTools == <<graphVars, mgmtVars, runVars, retryVars, stateVars, parallel, par_run,
               router, routed, validator, validated>>
notRetry == <<graphVars, mgmtVars, runVars, toolVars, stateVars, parallel, par_run,
               router, routed, validator, validated>>
notState == <<graphVars, mgmtVars, runVars, toolVars, retryVars, parallel, par_run,
               router, routed, validator, validated>>
notParallel == <<graphVars, mgmtVars, runVars, toolVars, retryVars, stateVars,
               router, routed, validator, validated>>
notValidator == <<graphVars, mgmtVars, runVars, toolVars, retryVars, stateVars, parallel, par_run,
                  router, routed>>
notRouter == <<graphVars, mgmtVars, runVars, toolVars, retryVars, stateVars, parallel, par_run,
               validator, validated>>

----------------------------------------------------------------------------
(* Bounds and input sets *)

\* longest run followed: Graph::run itself has no cap, the model stops
\* following a run after MaxSteps agent invocations
MaxSteps == 4

NodeIds == {0, 1}
\* ids an agent may route to, or a caller may start at; 7 is never a node
TargetIds == {0, 1, 7}
Inputs == {"hi", ""}

\* most retries a RetryAgent is configured with, and most failures a
\* FlakeyAgent starts with
MaxRetries == 3
MaxFailures == 4
\* inputs of RetryAgent::run; FlakeyAgent's success on "error" reads as a failure
RetryInputs == {"test", "error"}

\* a StatefulAgent is followed until its execution_count reaches MaxRuns
MaxRuns == 8
\* inputs of StatefulAgent::run, and the sizes given to with_max_history
StateInputs == {"a", "b"}
MaxHistories == {0, 1, 2, 5}

\* most rules a RouterAgent is given
MaxRoutes == 2

\* most rules a ValidatorAgent is given
MaxRules == 2

\* most inner agents a ParallelAgent is given
MaxAgents == 3

\* tool names a caller may ask for; "W" is never registered
ToolNames == {"X", "Y", "Z"}
AskedNames == {"X", "Y", "Z", "W"}
\* argument strings handed to execute_tool: two JSON texts of the same value,
\* and two texts that are not JSON
Arguments == {"{}", " {} ", "oops", ""}

----------------------------------------------------------------------------
(* Option<i32> *)

None == [some |-> FALSE, v |-> 0]
Some(x) == [some |-> TRUE, v |-> x]

(* HashMap *)

EmptyMap == [k \in {} |-> 0]
contains_key(m, k) == k \in DOMAIN m
insert(m, k, v) == [x \in (DOMAIN m) \cup {k} |-> IF x = k THEN v ELSE m[x]]

(* Vec::contains *)
contains(s, x) == \E i \in 1..Len(s) : s[i] = x

----------------------------------------------------------------------------
(* models/tools.rs: ToolRegistry *)

\* Result<Value, String>
Ok(v) == [ok |-> TRUE, v |-> v]
Err(e) == [ok |-> FALSE, v |-> e]

\* struct Tool: the function's name and description
Tool(name, description) == [name |-> name, description |-> description]

\* the ToolFunction closures registered: one that answers, one that fails
Answering == [id |-> "f", fails |-> FALSE]
Failing == [id |-> "g", fails |-> TRUE]
\* function(args)
call(function, value) ==
    IF function.fails
    THEN Err(function.id \o " failed")
    ELSE Ok("{\"by\":\"" \o function.id \o "\",\"args\":" \o value \o "}")

\* what register_tool is called with
Registrations ==
    {<<Tool(n, "answers"), Answering>> : n \in ToolNames}
        \cup {<<Tool(n, "fails"), Failing>> : n \in ToolNames}

\* serde_json::from_str::<Value>(arguments): the value (in canonical text), or
\* serde's error
from_str(arguments) ==
    CASE arguments = "{}" -> Ok("{}")
      [] arguments = " {} " -> Ok("{}")
      [] arguments = "" -> Err("EOF while parsing a value at line 1 column 0")
      [] OTHER -> Err("expected value at line 1 column 1")

\* the orders in which a HashMap over keys S may be iterated
Orders(S) ==
    {s \in [1..Cardinality(S) -> S] : \A i, j \in 1..Cardinality(S) : i # j => s[i] # s[j]}

ToolRegistry_new == [tools |-> EmptyMap, functions |-> EmptyMap]

\* faulty variant: a name already registered keeps its first definition
ToolRegistry_register_tool_keepsFirst(reg, tool, function) ==
    IF contains_key(reg.tools, tool.name) THEN reg
    ELSE [tools |-> insert(reg.tools, tool.name, tool),
          functions |-> insert(reg.functions, tool.name, function)]

\* let name = tool.function.name.clone(); both maps insert under it
ToolRegistry_register_tool(reg, tool, function) ==
    [tools |-> insert(reg.tools, tool.name, tool),
     functions |-> insert(reg.functions, tool.name, function)]

\* self.tools.values().cloned().collect(), the map iterated in `order`
ToolRegistry_get_tools(reg, order) ==
    [i \in 1..Len(order) |-> reg.tools[order[i]]]

\* faulty variant: the function is looked up before the arguments are parsed
ToolRegistry_execute_tool_lookupFirst(reg, name, arguments) ==
    LET args == from_str(arguments)
    IN IF ~contains_key(reg.functions, name)
       THEN [ret |-> Err("Tool '" \o name \o "' not found"), invoked |-> <<>>]
       ELSE IF ~args.ok
       THEN [ret |-> Err("Failed to parse arguments: " \o args.v), invoked |-> <<>>]
       ELSE [ret |-> call(reg.functions[name], args.v),
             invoked |-> <<[function |-> reg.functions[name], args |-> args.v]>>]

\* the Result returned, and the closures invoked on the way, in order
ToolRegistry_execute_tool(reg, name, arguments) ==
    LET args == from_str(arguments)
    IN IF ~args.ok
       THEN [ret |-> Err("Failed to parse arguments: " \o args.v), invoked |-> <<>>]
       ELSE IF contains_key(reg.functions, name)
       THEN [ret |-> call(reg.functions[name], args.v),
             invoked |-> <<[function |-> reg.functions[name], args |-> args.v]>>]
       ELSE [ret |-> Err("Tool '" \o name \o "' not found"), invoked |-> <<>>]

----------------------------------------------------------------------------
(* models/tools.rs: CombinedToolRegistry *)

\* CombinedToolRegistry::new(primary, secondary)
CombinedToolRegistry_new(p, s) == [primary |-> p, secondary |-> s]

\* faulty variant: the secondary's duplicates are kept
CombinedToolRegistry_get_tools_noRetain(c, porder, sorder) ==
    ToolRegistry_get_tools(c.secondary, sorder) \o ToolRegistry_get_tools(c.primary, porder)

CombinedToolRegistry_get_tools(c, porder, sorder) ==
    LET tools == ToolRegistry_get_tools(c.secondary, sorder)
        primary_tools == ToolRegistry_get_tools(c.primary, porder)
        kept(tool) == ~\E i \in 1..Len(primary_tools) : primary_tools[i].name = tool.name
    IN SelectSeq(tools, kept) \o primary_tools

CombinedToolRegistry_execute_tool(c, name, arguments) ==
    LET p == ToolRegistry_execute_tool(c.primary, name, arguments)
        s == ToolRegistry_execute_tool(c.secondary, name, arguments)
    IN IF p.ret.ok
       THEN p
       ELSE [ret |-> s.ret, invoked |-> p.invoked \o s.invoked]

----------------------------------------------------------------------------
(* The agents of the test suite (tests.rs): EchoAgent and FixedRouteAgent *)

EchoAgent == [kind |-> "Echo", target_node |-> 0]
FixedRouteAgent(t) == [kind |-> "FixedRoute", target_node |-> t]
Agents == {EchoAgent} \cup {FixedRouteAgent(t) : t \in TargetIds}

\* Agent::run(input, tool_registry) -> (String, Option<i32>)
Agent_run(agent, in, registry) ==
    IF agent.kind = "Echo"
    THEN [output |-> "Echo: " \o in, next_id |-> None]
    ELSE [output |-> "Routing '" \o in \o "' to node " \o ToString(agent.target_node),
          next_id |-> Some(agent.target_node)]

\* FlakeyAgent::new(failures)
FlakeyAgent(failures) ==
    [kind |-> "Flakey", target_node |-> 0, failures_remaining |-> failures]

\* StatefulAgent::new(..).with_processor(p), p a processor that reports
\* state.execution_count and routes to node t; of its AgentState the model
\* keeps the execution_count
StatefulRouteAgent(t) ==
    [kind |-> "Stateful", target_node |-> t, execution_count |-> 0]

\* Agent::run(&mut self, ..) of an agent with state: what it returns, and the
\* agent after the call
Inner_run(agent, in, registry) ==
    IF agent.kind = "Stateful"
    THEN [output |-> "Execution #" \o ToString(agent.execution_count + 1),
          next_id |-> Some(agent.target_node),
          agent |-> [agent EXCEPT !.execution_count = @ + 1]]
    ELSE IF agent.kind = "Flakey"
    THEN IF agent.failures_remaining > 0
         THEN [output |-> "Error: temporary failure", next_id |-> None,
               agent |-> [agent EXCEPT !.failures_remaining = @ - 1]]
         ELSE [output |-> "Success: " \o in, next_id |-> None, agent |-> agent]
    ELSE [output |-> Agent_run(agent, in, registry).output,
          next_id |-> Agent_run(agent, in, registry).next_id,
          agent |-> agent]

----------------------------------------------------------------------------
(* str *)

\* str::contains(pat)
str_contains(s, pat) ==
    \E i \in 1..(Len(s) - Len(pat) + 1) : SubSeq(s, i, i + Len(pat) - 1) = pat

Uppercase == "ABCDEFGHIJKLMNOPQRSTUVWXYZ"
Lowercase == "abcdefghijklmnopqrstuvwxyz"
char_to_lowercase(c) ==
    IF \E i \in 1..Len(Uppercase) : SubSeq(Uppercase, i, i) = c
    THEN LET i == CHOOSE i \in 1..Len(Uppercase) : SubSeq(Uppercase, i, i) = c
         IN SubSeq(Lowercase, i, i)
    ELSE c

RECURSIVE join(_, _)
\* [String]::join(sep)
join(results, sep) ==
    IF results = <<>> THEN ""
    ELSE IF Len(results) = 1 THEN results[1]
    ELSE results[1] \o sep \o join(Tail(results), sep)

RECURSIVE to_lowercase(_)
\* str::to_lowercase, on ASCII text
to_lowercase(s) ==
    IF s = "" THEN ""
    ELSE char_to_lowercase(SubSeq(s, 1, 1)) \o to_lowercase(SubSeq(s, 2, Len(s)))

----------------------------------------------------------------------------
(* agents/retry.rs: RetryAgent. A Duration is its number of milliseconds;  *)
(* the f64 multiplier of ExponentialBackoff is the fraction num / den.     *)

Fixed(delay) == [kind |-> "Fixed", delay |-> delay]
ExponentialBackoff(base, max, num, den) ==
    [kind |-> "ExponentialBackoff", base |-> base, max |-> max,
     multiplier |-> [num |-> num, den |-> den]]
Linear(initial, increment, max) ==
    [kind |-> "Linear", initial |-> initial, increment |-> increment, max |-> max]

\* the strategies of RetryAgent::new, of the test suite and of the struct's
\* documentation, one exponential and one linear that reach their max, and
\* one exponential with the multiplier 0.5
Strategies ==
    {Fixed(1000), Fixed(10), ExponentialBackoff(100, 10000, 2, 1),
     ExponentialBackoff(100, 200, 3, 2), ExponentialBackoff(100, 10000, 1, 2),
     Linear(100, 50, 180)}

\* |output| output.contains("error")
condition(c, output) == str_contains(output, "error")

RetryAgent_new(inner) ==
    [inner |-> inner, max_retries |-> 3, strategy |-> Fixed(1000),
     retry_condition |-> [some |-> FALSE, v |-> ""]]

min(a, b) == IF a <= b THEN a ELSE b

RECURSIVE powi(_, _)
powi(b, e) == IF e = 0 THEN 1 ELSE b * powi(b, e - 1)

\* faulty variant: the delay is not capped at max
calculate_delay_noCap(agent, attempt) ==
    LET s == agent.strategy
    IN CASE s.kind = "Fixed" -> s.delay
         [] s.kind = "ExponentialBackoff" ->
              (s.base * powi(s.multiplier.num, attempt))
                  \div powi(s.multiplier.den, attempt)
         [] s.kind = "Linear" ->
              s.initial + s.increment * attempt

\* RetryAgent::calculate_delay(attempt), in milliseconds
calculate_delay(agent, attempt) ==
    LET s == agent.strategy
    IN CASE s.kind = "Fixed" -> s.delay
         [] s.kind = "ExponentialBackoff" ->
              \* (base * multiplier^attempt).min(max) as u64
              min((s.base * powi(s.multiplier.num, attempt))
                      \div powi(s.multiplier.den, attempt), s.max)
         [] s.kind = "Linear" ->
              min(s.initial + s.increment * attempt, s.max)

\* faulty variant: the default test is made as well as the custom one
should_retry_alsoDefault(agent, output) ==
    \/ agent.retry_condition.some /\ condition(agent.retry_condition.v, output)
    \/ output = ""
    \/ str_contains(to_lowercase(output), "error")
    \/ str_contains(to_lowercase(output), "failed")
    \/ str_contains(to_lowercase(output), "exception")

\* RetryAgent::should_retry(output)
should_retry(agent, output) ==
    IF agent.retry_condition.some
    THEN condition(agent.retry_condition.v, output)
    ELSE \/ output = ""
         \/ str_contains(to_lowercase(output), "error")
         \/ str_contains(to_lowercase(output), "failed")
         \/ str_contains(to_lowercase(output), "exception")

\* faulty variant: the last allowed attempt is not returned from the loop
returns_now_onlyOnSuccess(agent, attempt, output) == ~should_retry(agent, output)

\* faulty variant: an attempt that did not fail does not end the loop
returns_now_onlyAtLast(agent, attempt, output) == attempt = agent.max_retries

\* !self.should_retry(&output) || attempt == self.max_retries
returns_now(agent, attempt, output) ==
    ~should_retry(agent, output) \/ attempt = agent.max_retries

\* faulty variant: the delay is computed from the absolute attempt count
delay_before_absolute(agent, attempt) == calculate_delay(agent, attempt)

\* the delay slept before attempt number `attempt` (> 0)
delay_before(agent, attempt) == calculate_delay(agent, attempt - 1)

\* the statements after the loop
exhausted(agent, last_output, last_next_node) ==
    [output |-> "All " \o ToString(agent.max_retries)
                    \o " retries exhausted. Last output: " \o last_output,
     next_id |-> last_next_node]

NoRun ==
    [pc |-> "idle", input |-> "", attempt |-> 0, last_output |-> "",
     last_next_node |-> None, ret |-> [output |-> "", next_id |-> None],
     inner0 |-> EchoAgent]

Slept(delay) ==
    [ev |-> "sleep", delay |-> delay, attempt |-> 0, input |-> "", output |-> "",
     next_node |-> None]
Ran(attempt, in, output, next_node) ==
    [ev |-> "run", delay |-> 0, attempt |-> attempt, input |-> in,
     output |-> output, next_node |-> next_node]

\* RetryAgent::new(inner)
retry_new(inner) ==
    /\ retry_run.pc = "idle"
    /\ retry_agent' = RetryAgent_new(inner)
    /\ UNCHANGED <<retry_run, events, notRetry>>

with_max_retries(max) ==
    /\ retry_run.pc = "idle"
    /\ retry_agent' = [retry_agent EXCEPT !.max_retries = max]
    /\ UNCHANGED <<retry_run, events, notRetry>>

with_strategy(strategy) ==
    /\ retry_run.pc = "idle"
    /\ retry_agent' = [retry_agent EXCEPT !.strategy = strategy]
    /\ UNCHANGED <<retry_run, events, notRetry>>

with_retry_condition(c) ==
    /\ retry_run.pc = "idle"
    /\ retry_agent' = [retry_agent EXCEPT !.retry_condition = [some |-> TRUE, v |-> c]]
    /\ UNCHANGED <<retry_run, events, notRetry>>

\* RetryAgent::run(input, tool_registry) is entered: attempt 0 is next.
\* inner0 remembers the inner agent as the run found it.
RetryAgent_run_begin(in) ==
    /\ retry_run.pc = "idle"
    /\ retry_run' = [NoRun EXCEPT !.pc = "attempt", !.input = in,
                                  !.inner0 = retry_agent.inner]
    /\ events' = <<>>
    /\ UNCHANGED <<retry_agent, notRetry>>

\* if attempt > 0 { sleep(self.calculate_delay(attempt - 1)).await }
RetryAgent_run_sleep ==
    /\ retry_run.pc = "sleep"
    /\ events' = Append(events, Slept(delay_before(retry_agent, retry_run.attempt)))
    /\ retry_run' = [retry_run EXCEPT !.pc = "attempt"]
    /\ UNCHANGED <<retry_agent, notRetry>>

\* the inner agent runs, then the attempt is returned, or the loop goes on to
\* the next attempt, or the range 0..=max_retries is over
RetryAgent_run_attempt ==
    /\ retry_run.pc = "attempt"
    /\ LET r == Inner_run(retry_agent.inner, retry_run.input, ToolRegistry_new)
           attempt == retry_run.attempt
       IN /\ retry_agent' = [retry_agent EXCEPT !.inner = r.agent]
          /\ events' = Append(events, Ran(attempt, retry_run.input, r.output, r.next_id))
          /\ retry_run' =
                IF returns_now(retry_agent, attempt, r.output)
                THEN [retry_run EXCEPT !.pc = "returned",
                                       !.ret = [output |-> r.output, next_id |-> r.next_id]]
                ELSE IF attempt + 1 > retry_agent.max_retries
                THEN [retry_run EXCEPT !.pc = "returned",
                                       !.last_output = r.output,
                                       !.last_next_node = r.next_id,
                                       !.ret = exhausted(retry_agent, r.output, r.next_id)]
                ELSE [retry_run EXCEPT !.pc = "sleep",
                                       !.attempt = attempt + 1,
                                       !.last_output = r.output,
                                       !.last_next_node = r.next_id]
    /\ UNCHANGED notRetry

\* the caller has taken what run returned
RetryAgent_run_end ==
    /\ retry_run.pc = "returned"
    /\ retry_run' = NoRun
    /\ events' = <<>>
    /\ UNCHANGED <<retry_agent, notRetry>>

----------------------------------------------------------------------------
(* agents/state.rs: AgentState and StatefulAgent *)

NoContext == [some |-> FALSE, v |-> ""]

\* AgentState::default()
AgentState_default ==
    [data |-> EmptyMap, history |-> <<>>, context |-> NoContext, execution_count |-> 0]

\* states a caller hands to set_state: the default one, and one with data, a
\* context (with a quote and a backslash in it) and three entries of history
SampleStates ==
    {AgentState_default,
     [data |-> ("k" :> "1" @@ "j" :> "20"), history |-> <<"a", "b", "a">>,
      context |-> [some |-> TRUE, v |-> "c\"t\\x"], execution_count |-> 3]}

\* s without its first n characters
drop(str, n) == SubSeq(str, n + 1, Len(str))
starts_with(str, lit) == Len(str) >= Len(lit) /\ SubSeq(str, 1, Len(lit)) = lit

RECURSIVE escape(_)
\* a quote and a backslash are written behind a backslash
escape(str) ==
    IF str = "" THEN ""
    ELSE LET c == SubSeq(str, 1, 1)
         IN (IF c \in {"\"", "\\"} THEN "\\" \o c ELSE c) \o escape(drop(str, 1))

\* faulty variant: the string is written as it is
json_string_noEscape(str) == "\"" \o str \o "\""

json_string(str) == "\"" \o escape(str) \o "\""

RECURSIVE json_array(_)
\* the elements of a Vec<String>, comma separated
json_array(v) ==
    IF v = <<>> THEN ""
    ELSE IF Len(v) = 1 THEN json_string(v[1])
    ELSE json_string(v[1]) \o "," \o json_array(Tail(v))

RECURSIVE json_map(_, _)
\* the entries of a HashMap<String, Value>, iterated in `order`
json_map(m, order) ==
    IF order = <<>> THEN ""
    ELSE IF Len(order) = 1 THEN json_string(order[1]) \o ":" \o m[order[1]]
    ELSE json_string(order[1]) \o ":" \o m[order[1]] \o "," \o json_map(m, Tail(order))

\* serde_json::to_string(&state), the data map iterated in `order`
to_string(state, order) ==
    "{\"data\":{" \o json_map(state.data, order) \o "}"
        \o ",\"history\":[" \o json_array(state.history) \o "]"
        \o ",\"context\":"
        \o (IF state.context.some THEN json_string(state.context.v) ELSE "null")
        \o ",\"execution_count\":" \o ToString(state.execution_count) \o "}"

\* the JSON texts of state
Texts(state) == {to_string(state, o) : o \in Orders(DOMAIN state.data)}

\* a step of the parser: whether it matched, its value, and the text left
Parsed(v, rest) == [ok |-> TRUE, v |-> v, rest |-> rest]
NoParse == [ok |-> FALSE, v |-> "", rest |-> ""]

expect(str, lit) ==
    IF starts_with(str, lit) THEN Parsed(lit, drop(str, Len(lit))) ELSE NoParse

RECURSIVE parse_chars(_, _)
\* the characters of a string up to its closing quote, unescaped onto acc
parse_chars(str, acc) ==
    IF str = "" THEN NoParse
    ELSE LET c == SubSeq(str, 1, 1)
         IN IF c = "\"" THEN Parsed(acc, drop(str, 1))
            ELSE IF c = "\\"
            THEN IF Len(str) >= 2 /\ SubSeq(str, 2, 2) \in {"\"", "\\"}
                 THEN parse_chars(drop(str, 2), acc \o SubSeq(str, 2, 2))
                 ELSE NoParse
            ELSE parse_chars(drop(str, 1), acc \o c)

parse_string(str) ==
    IF starts_with(str, "\"") THEN parse_chars(drop(str, 1), "") ELSE NoParse

Digits == {"0", "1", "2", "3", "4", "5", "6", "7", "8", "9"}

\* a number: the digits str begins with
parse_number(str) ==
    LET n == CHOOSE k \in 0..Len(str) :
                 /\ \A i \in 1..k : SubSeq(str, i, i) \in Digits
                 /\ k < Len(str) => SubSeq(str, k + 1, k + 1) \notin Digits
    IN IF n = 0 THEN NoParse ELSE Parsed(SubSeq(str, 1, n), drop(str, n))

RECURSIVE to_usize(_)
to_usize(digits) ==
    IF digits = "" THEN 0
    ELSE 10 * to_usize(SubSeq(digits, 1, Len(digits) - 1))
           + (CHOOSE d \in 0..9 : ToString(d) = SubSeq(digits, Len(digits), Len(digits)))

RECURSIVE parse_elements(_)
\* the strings of an array, after its "[" and up to its "]"
parse_elements(str) ==
    LET e == parse_string(str)
    IN IF ~e.ok THEN NoParse
       ELSE IF starts_with(e.rest, "]") THEN Parsed(<<e.v>>, drop(e.rest, 1))
       ELSE IF starts_with(e.rest, ",")
       THEN LET r == parse_elements(drop(e.rest, 1))
            IN IF r.ok THEN Parsed(<<e.v>> \o r.v, r.rest) ELSE NoParse
       ELSE NoParse

parse_array(str) ==
    IF starts_with(str, "[]") THEN Parsed(<<>>, drop(str, 2))
    ELSE IF starts_with(str, "[") THEN parse_elements(drop(str, 1))
    ELSE NoParse

RECURSIVE parse_entries(_, _)
\* the entries of an object, after its "{" and up to its "}", put into m
parse_entries(str, m) ==
    LET k == parse_string(str)
        c == expect(k.rest, ":")
        v == parse_number(c.rest)
    IN IF ~(k.ok /\ c.ok /\ v.ok) THEN NoParse
       ELSE IF starts_with(v.rest, "}") THEN Parsed(insert(m, k.v, v.v), drop(v.rest, 1))
       ELSE IF starts_with(v.rest, ",")
       THEN parse_entries(drop(v.rest, 1), insert(m, k.v, v.v))
       ELSE NoParse

parse_map(str) ==
    IF starts_with(str, "{}") THEN Parsed(EmptyMap, drop(str, 2))
    ELSE IF starts_with(str, "{") THEN parse_entries(drop(str, 1), EmptyMap)
    ELSE NoParse

\* Option<String>: null, or a string
parse_option(str) ==
    IF starts_with(str, "null") THEN Parsed(NoContext, drop(str, 4))
    ELSE LET x == parse_string(str)
         IN IF x.ok THEN Parsed([some |-> TRUE, v |-> x.v], x.rest) ELSE NoParse

\* serde_json::from_str::<AgentState>(json), for texts written the way
\* serde_json::to_string writes them (fields in the order of the struct, no
\* white space, data values that are numbers)
AgentState_from_str(json) ==
    LET d == parse_map(expect(json, "{\"data\":").rest)
        h == parse_array(expect(d.rest, ",\"history\":").rest)
        c == parse_option(expect(h.rest, ",\"context\":").rest)
        n == parse_number(expect(c.rest, ",\"execution_count\":").rest)
    IN IF d.ok /\ h.ok /\ c.ok /\ n.ok /\ n.rest = "}"
       THEN Ok([data |-> d.v, history |-> h.v, context |-> c.v,
                execution_count |-> to_usize(n.v)])
       ELSE Err("invalid AgentState")

\* texts a caller hands to load_state: two that are not an AgentState, one
\* that is an AgentState up to its last field, which is missing, and the JSON
\* of the sample states
LoadTexts ==
    {"oops", "{}", "{\"data\":{\"k\":7},\"history\":[\"z\"],\"context\":null}"}
        \cup UNION {Texts(st) : st \in SampleStates}

\* serde_json::from_str::<AgentState>(json) of each of these texts
LoadResults == [json \in LoadTexts |-> AgentState_from_str(json)]

\* the state a processor was handed, if one was called
NotSeen == [some |-> FALSE, v |-> AgentState_default]
Seen(state) == [some |-> TRUE, v |-> state]

\* the processor of the struct's documentation, called with `state`
doc_processor(in, state) ==
    LET st == [state EXCEPT !.execution_count = @ + 1,
                            !.history = Append(@, in)]
    IN [state |-> st,
        ret |-> [output |-> "Processed " \o in \o " (execution #"
                               \o ToString(st.execution_count) \o ")",
                 next_id |-> None],
        seen |-> Seen(state)]

\* StatefulAgent::new(name)
StatefulAgent_new ==
    [state |-> AgentState_default, processor |-> [some |-> FALSE, v |-> ""],
     max_history |-> 100]

\* faulty variant: the entry just pushed is the one removed
trim_dropsNewest(history, max_history) ==
    IF Len(history) > max_history
    THEN SubSeq(history, 1, Len(history) - 1)
    ELSE history

\* if state.history.len() > self.max_history { state.history.remove(0); }
trim(history, max_history) ==
    IF Len(history) > max_history THEN Tail(history) ELSE history

\* faulty variant: the processor is called before the state is updated
StatefulAgent_run_processorFirst(agent, in) ==
    IF agent.processor.some
    THEN LET r == doc_processor(in, agent.state)
             pushed == [r.state EXCEPT !.execution_count = @ + 1,
                                       !.history = Append(@, in)]
         IN [r EXCEPT !.state = [pushed EXCEPT !.history = trim(@, agent.max_history)]]
    ELSE LET pushed == [agent.state EXCEPT !.execution_count = @ + 1,
                                           !.history = Append(@, in)]
             st == [pushed EXCEPT !.history = trim(@, agent.max_history)]
         IN [state |-> st,
             ret |-> [output |-> "Stateful agent processed: " \o in
                                    \o " (execution #" \o ToString(st.execution_count)
                                    \o ", history: " \o ToString(Len(st.history))
                                    \o " items)",
                      next_id |-> None],
             seen |-> NotSeen]

\* StatefulAgent::run on the agent: what it returns, the state after it, and
\* the state its processor was handed
StatefulAgent_run(agent, in) ==
    LET pushed == [agent.state EXCEPT !.execution_count = @ + 1,
                                      !.history = Append(@, in)]
        st == [pushed EXCEPT !.history = trim(@, agent.max_history)]
    IN IF agent.processor.some
       THEN doc_processor(in, st)
       ELSE [state |-> st,
             ret |-> [output |-> "Stateful agent processed: " \o in
                                    \o " (execution #" \o ToString(st.execution_count)
                                    \o ", history: " \o ToString(Len(st.history))
                                    \o " items)",
                      next_id |-> None],
             seen |-> NotSeen]

StateCall(kind, ok, in, output) ==
    [kind |-> kind, ok |-> ok, input |-> in, output |-> output,
     next_id |-> None, seen |-> NotSeen]
NoStateCall == StateCall("none", TRUE, "", "")
Empty == [valid |-> TRUE, inputs |-> <<>>]
Touched == [valid |-> FALSE, inputs |-> <<>>]

\* the builder calls, made while the agent is built: before its first run
with_processor(name) ==
    /\ ~new_agent.some
    /\ stateful.state = AgentState_default
    /\ stateful' = [stateful EXCEPT !.processor = [some |-> TRUE, v |-> name]]
    /\ last_call' = StateCall("with_processor", TRUE, "", "")
    /\ UNCHANGED <<new_agent, since_empty, state_mutex, notState>>

with_max_history(max) ==
    /\ ~new_agent.some
    /\ stateful.state = AgentState_default
    /\ stateful' = [stateful EXCEPT !.max_history = max]
    /\ last_call' = StateCall("with_max_history", TRUE, "", "")
    /\ UNCHANGED <<new_agent, since_empty, state_mutex, notState>>

set_state(state) ==
    /\ ~new_agent.some
    /\ stateful' = [stateful EXCEPT !.state = state]
    /\ last_call' = StateCall("set_state", TRUE, "", "")
    /\ since_empty' = IF state = AgentState_default THEN Empty ELSE Touched
    /\ UNCHANGED <<new_agent, state_mutex, notState>>

clear_state ==
    /\ ~new_agent.some
    /\ stateful' = [stateful EXCEPT !.state = AgentState_default]
    /\ last_call' = StateCall("clear_state", TRUE, "", "")
    /\ since_empty' = Empty
    /\ UNCHANGED <<new_agent, state_mutex, notState>>

\* faulty variant: the state is emptied before the text is read
load_state_clearsFirst(json) ==
    LET r == LoadResults[json]
    IN /\ ~new_agent.some
       /\ stateful' = [stateful EXCEPT !.state = IF r.ok THEN r.v ELSE AgentState_default]
       /\ last_call' = StateCall("load_state", r.ok, json, "")
       /\ since_empty' = IF ~r.ok THEN since_empty
                         ELSE IF r.v = AgentState_default THEN Empty ELSE Touched
       /\ UNCHANGED <<new_agent, state_mutex, notState>>

\* StatefulAgent::load_state(json)
load_state(json) ==
    LET r == LoadResults[json]
    IN /\ ~new_agent.some
       /\ stateful' = IF r.ok THEN [stateful EXCEPT !.state = r.v] ELSE stateful
       /\ last_call' = StateCall("load_state", r.ok, json, "")
       /\ since_empty' = IF ~r.ok THEN since_empty
                         ELSE IF r.v = AgentState_default THEN Empty ELSE Touched
       /\ UNCHANGED <<new_agent, state_mutex, notState>>

\* StatefulAgent::save_state(), the data map iterated in `order`
save_state(order) ==
    /\ ~new_agent.some
    /\ last_call' = StateCall("save_state", TRUE, "", to_string(stateful.state, order))
    /\ UNCHANGED <<stateful, new_agent, since_empty, state_mutex, notState>>

NoAgent == [some |-> FALSE, v |-> StatefulAgent_new]

\* StatefulAgent::new(name).load_state(&json), json the text just saved
new_agent_load_state ==
    LET r == AgentState_from_str(last_call.output)
    IN /\ last_call.kind = "save_state"
       /\ ~new_agent.some
       /\ new_agent' = [some |-> TRUE,
                        v |-> IF r.ok THEN [StatefulAgent_new EXCEPT !.state = r.v]
                              ELSE StatefulAgent_new]
       /\ last_call' = StateCall("new_agent.load_state", r.ok, last_call.output, "")
       /\ UNCHANGED <<stateful, since_empty, state_mutex, notState>>

\* the second agent goes out of scope
new_agent_dropped ==
    /\ new_agent.some
    /\ new_agent' = NoAgent
    /\ UNCHANGED <<stateful, last_call, since_empty, state_mutex, notState>>

\* StatefulAgent::run(input, _): the state is locked from entry to return
stateful_run(in) ==
    LET r == StatefulAgent_run(stateful, in)
    IN /\ ~new_agent.some
       /\ stateful.state.execution_count < MaxRuns
       /\ stateful' = [stateful EXCEPT !.state = r.state]
       /\ last_call' = [StateCall("run", TRUE, in, r.ret.output)
                            EXCEPT !.next_id = r.ret.next_id, !.seen = r.seen]
       /\ since_empty' = IF since_empty.valid /\ ~stateful.processor.some
                         THEN [since_empty EXCEPT !.inputs = Append(@, in)]
                         ELSE Touched
       /\ UNCHANGED <<new_agent, state_mutex, notState>>

\* StatefulAgent::run, statement by statement, for callers that reach the
\* state from several threads. `let mut state = self.state.lock().unwrap()`:
\* the caller waits while the Mutex is held.
mutex_lock(in) ==
    /\ ~new_agent.some
    /\ ~state_mutex.held
    /\ state_mutex.pc = "idle"
    /\ stateful.state.execution_count < MaxRuns
    /\ state_mutex' = [state_mutex EXCEPT !.held = TRUE, !.pc = "locked", !.input = in]
    /\ since_empty' = Touched
    /\ UNCHANGED <<stateful, last_call, new_agent, notState>>

\* faulty variant: the guard is dropped before the processor is called
run_step_dropsEarly ==
    LET in == state_mutex.input
        st == stateful.state
    IN /\ state_mutex.pc \in {"locked", "incremented", "pushed", "trimmed"}
       /\ CASE state_mutex.pc = "locked" ->
                 /\ stateful' = [stateful EXCEPT !.state.execution_count = @ + 1]
                 /\ state_mutex' = [state_mutex EXCEPT !.pc = "incremented"]
            [] state_mutex.pc = "incremented" ->
                 /\ stateful' = [stateful EXCEPT !.state.history = Append(@, in)]
                 /\ state_mutex' = [state_mutex EXCEPT !.pc = "pushed"]
            [] state_mutex.pc = "pushed" ->
                 /\ stateful' = [stateful EXCEPT
                                    !.state.history = trim(@, stateful.max_history)]
                 /\ state_mutex' = [state_mutex EXCEPT !.pc = "trimmed"]
            [] state_mutex.pc = "trimmed" ->
                 IF stateful.processor.some
                 THEN LET r == doc_processor(in, st)
                      IN /\ stateful' = [stateful EXCEPT !.state = r.state]
                         /\ state_mutex' = [state_mutex EXCEPT !.pc = "processed",
                                                               !.held = FALSE,
                                                               !.ret = r.ret]
                 ELSE /\ state_mutex' =
                            [state_mutex EXCEPT
                                !.pc = "formatted",
                                !.ret = [output |-> "Stateful agent processed: " \o in
                                                      \o " (execution #"
                                                      \o ToString(st.execution_count)
                                                      \o ", history: "
                                                      \o ToString(Len(st.history))
                                                      \o " items)",
                                         next_id |-> None]]
                      /\ UNCHANGED stateful
       /\ UNCHANGED <<last_call, new_agent, since_empty, notState>>

\* the statements of run under the guard, one at a time: the count, the
\* push, the trim, then the processor or the default response
run_step ==
    LET in == state_mutex.input
        st == stateful.state
    IN /\ state_mutex.pc \in {"locked", "incremented", "pushed", "trimmed"}
       /\ CASE state_mutex.pc = "locked" ->
                 /\ stateful' = [stateful EXCEPT !.state.execution_count = @ + 1]
                 /\ state_mutex' = [state_mutex EXCEPT !.pc = "incremented"]
            [] state_mutex.pc = "incremented" ->
                 /\ stateful' = [stateful EXCEPT !.state.history = Append(@, in)]
                 /\ state_mutex' = [state_mutex EXCEPT !.pc = "pushed"]
            [] state_mutex.pc = "pushed" ->
                 /\ stateful' = [stateful EXCEPT
                                    !.state.history = trim(@, stateful.max_history)]
                 /\ state_mutex' = [state_mutex EXCEPT !.pc = "trimmed"]
            [] state_mutex.pc = "trimmed" ->
                 IF stateful.processor.some
                 THEN LET r == doc_processor(in, st)
                      IN /\ stateful' = [stateful EXCEPT !.state = r.state]
                         /\ state_mutex' = [state_mutex EXCEPT !.pc = "processed",
                                                               !.ret = r.ret]
                 ELSE /\ state_mutex' =
                            [state_mutex EXCEPT
                                !.pc = "formatted",
                                !.ret = [output |-> "Stateful agent processed: " \o in
                                                      \o " (execution #"
                                                      \o ToString(st.execution_count)
                                                      \o ", history: "
                                                      \o ToString(Len(st.history))
                                                      \o " items)",
                                         next_id |-> None]]
                      /\ UNCHANGED stateful
       /\ UNCHANGED <<last_call, new_agent, since_empty, notState>>

\* drop(state) and the return that follows it, on either path
run_drop ==
    /\ state_mutex.pc \in {"processed", "formatted"}
    /\ state_mutex' = [state_mutex EXCEPT
                          !.held = FALSE, !.pc = "idle", !.input = "",
                          !.ret = [output |-> "", next_id |-> None],
                          !.returned = @ \cup {state_mutex.pc}]
    /\ last_call' = [StateCall("run", TRUE, state_mutex.input, state_mutex.ret.output)
                         EXCEPT !.next_id = state_mutex.ret.next_id]
    /\ UNCHANGED <<stateful, new_agent, since_empty, notState>>

\* StatefulAgent::get_state(), from any thread: it waits while the Mutex is
\* held, then clones the state; read_at is where the run stood
get_state ==
    /\ ~new_agent.some
    /\ ~state_mutex.held
    /\ state_mutex' = [state_mutex EXCEPT !.read_at = state_mutex.pc]
    /\ last_call' = [StateCall("get_state", TRUE, "", "")
                         EXCEPT !.seen = Seen(stateful.state)]
    /\ UNCHANGED <<stateful, new_agent, since_empty, notState>>

----------------------------------------------------------------------------
(* agents/router.rs: RouterAgent. A pattern is a regex of alternatives      *)
(* separated by "|", each a sequence of characters and of the classes \s,   *)
(* \S, \d, \D; a pattern with a "(" that is never closed does not compile. *)

\* Regex::new(pattern): whether it compiles, and its alternatives as
\* sequences of atoms (a character, or the letter of a class)
Regex_new(pattern) ==
    LET RECURSIVE split(_, _)
        split(str, acc) ==
            IF str = "" THEN <<acc>>
            ELSE IF starts_with(str, "\\") /\ Len(str) >= 2
            THEN split(drop(str, 2), acc \o SubSeq(str, 1, 2))
            ELSE IF starts_with(str, "|") THEN <<acc>> \o split(drop(str, 1), "")
            ELSE split(drop(str, 1), acc \o SubSeq(str, 1, 1))
        RECURSIVE atoms(_)
        atoms(str) ==
            IF str = "" THEN <<>>
            ELSE IF starts_with(str, "\\") /\ Len(str) >= 2
            THEN <<[class |-> TRUE, c |-> SubSeq(str, 2, 2)]>> \o atoms(drop(str, 2))
            ELSE <<[class |-> FALSE, c |-> SubSeq(str, 1, 1)]>> \o atoms(drop(str, 1))
        parts == split(pattern, "")
    IN [ok |-> ~str_contains(pattern, "("),
        alternatives |-> [k \in 1..Len(parts) |-> atoms(parts[k])]]

\* Regex::is_match(text): some alternative matches somewhere in the text
is_match(re, text) ==
    LET atom_matches(a, ch) ==
            IF ~a.class THEN ch = a.c
            ELSE CASE a.c = "s" -> ch = " "
                   [] a.c = "S" -> ch # " "
                   [] a.c = "d" -> ch \in Digits
                   [] a.c = "D" -> ch \notin Digits
                   [] OTHER -> FALSE
    IN \E k \in 1..Len(re.alternatives) :
         \E pos \in 1..(Len(text) + 1) :
            LET alt == re.alternatives[k]
            IN /\ pos + Len(alt) - 1 <= Len(text)
               /\ \A j \in 1..Len(alt) :
                     atom_matches(alt[j], SubSeq(text, pos + j - 1, pos + j - 1))

\* rules a caller adds: the two of test_router_agent, one that looks for a
\* "@" between two characters that are not white space, one with a capital
\* letter, one that does not compile (description, which run never reads, is
\* left out)
RouteRules ==
    {[pattern |-> "technical|bug|error", target_node |-> 1],
     [pattern |-> "sales|pricing|buy", target_node |-> 2],
     [pattern |-> "\\S@\\S", target_node |-> 4],
     [pattern |-> "Bug", target_node |-> 5],
     [pattern |-> "bug(", target_node |-> 6]}

\* RouterAgent::new()
RouterAgent_new == [routes |-> <<>>, default_route |-> None, case_sensitive |-> FALSE]

\* RouterAgent::find_route(input)
find_route(agent, in) ==
    LET test_input == IF agent.case_sensitive THEN in ELSE to_lowercase(in)
        RECURSIVE loop(_)
        loop(routes) ==
            IF routes = <<>> THEN agent.default_route
            ELSE LET rule == Head(routes)
                     pattern == IF agent.case_sensitive THEN rule.pattern
                                ELSE to_lowercase(rule.pattern)
                     re == Regex_new(pattern)
                 IN IF re.ok /\ is_match(re, test_input)
                    THEN Some(rule.target_node)
                    ELSE loop(Tail(routes))
    IN loop(agent.routes)

\* RouterAgent::add_route(rule)
add_route(rule) ==
    /\ Len(router.routes) < MaxRoutes
    /\ router' = [router EXCEPT !.routes = Append(@, rule)]
    /\ UNCHANGED <<routed, notRouter>>

\* RouterAgent::set_default(node_id)
set_default(node_id) ==
    /\ router' = [router EXCEPT !.default_route = Some(node_id)]
    /\ UNCHANGED <<routed, notRouter>>

\* RouterAgent::set_case_sensitive(sensitive)
set_case_sensitive(sensitive) ==
    /\ router' = [router EXCEPT !.case_sensitive = sensitive]
    /\ UNCHANGED <<routed, notRouter>>

\* RouterAgent::run(input, _)
router_run(in) ==
    LET route == find_route(router, in)
    IN /\ routed' = [called |-> TRUE, agent |-> router, input |-> in,
                     output |-> IF route.some
                                THEN "Routing to node " \o ToString(route.v) \o ": " \o in
                                ELSE "No matching route found for: " \o in,
                     next_id |-> route]
       /\ UNCHANGED <<router, notRouter>>

----------------------------------------------------------------------------
(* agents/validator.rs: ValidatorAgent. The validator function of a rule   *)
(* is given by the kind of the rule and its parameters.                    *)

\* the rule of the struct's documentation that add_rule is handed
no_profanity(critical) ==
    [name |-> "no_profanity", kind |-> "contains", critical |-> critical,
     min |-> None, max |-> None]

\* (rule.validator)(input)
check(rule, in) ==
    IF rule.kind = "length"
    THEN IF rule.min.some /\ Len(in) < rule.min.v
         THEN Err("Input too short (min: " \o ToString(rule.min.v) \o ")")
         ELSE IF rule.max.some /\ Len(in) > rule.max.v
         THEN Err("Input too long (max: " \o ToString(rule.max.v) \o ")")
         ELSE Ok("")
    ELSE IF str_contains(in, "bad_word") THEN Err("Profanity detected") ELSE Ok("")

\* ValidatorAgent::new()
ValidatorAgent_new ==
    [rules |-> <<>>, next_node_on_success |-> None, next_node_on_failure |-> None,
     strict_mode |-> FALSE]

\* faulty variant: the loop is left at the first error
validate_stopsAtFirstError(agent, in) ==
    LET RECURSIVE loop(_, _)
        loop(rules, acc) ==
            IF rules = <<>> THEN acc
            ELSE LET rule == Head(rules)
                     r == check(rule, in)
                     error_msg == rule.name \o ": " \o r.v
                     seen == [acc EXCEPT !.evaluated = @ + 1]
                 IN IF r.ok THEN loop(Tail(rules), seen)
                    ELSE IF rule.critical \/ agent.strict_mode
                    THEN [seen EXCEPT !.errors = Append(@, error_msg)]
                    ELSE loop(Tail(rules), [seen EXCEPT !.warnings = Append(@, error_msg)])
        end == loop(agent.rules, [warnings |-> <<>>, errors |-> <<>>, evaluated |-> 0])
    IN [ok |-> end.errors = <<>>,
        v |-> IF end.errors = <<>> THEN end.warnings ELSE end.errors,
        evaluated |-> end.evaluated]

\* ValidatorAgent::validate(input): Ok(warnings) or Err(errors), and (history)
\* the number of rules whose validator was called
validate(agent, in) ==
    LET RECURSIVE loop(_, _)
        loop(rules, acc) ==
            IF rules = <<>> THEN acc
            ELSE LET rule == Head(rules)
                     r == check(rule, in)
                     error_msg == rule.name \o ": " \o r.v
                     seen == [acc EXCEPT !.evaluated = @ + 1]
                 IN IF r.ok THEN loop(Tail(rules), seen)
                    ELSE IF rule.critical \/ agent.strict_mode
                    THEN loop(Tail(rules), [seen EXCEPT !.errors = Append(@, error_msg)])
                    ELSE loop(Tail(rules), [seen EXCEPT !.warnings = Append(@, error_msg)])
        end == loop(agent.rules, [warnings |-> <<>>, errors |-> <<>>, evaluated |-> 0])
    IN [ok |-> end.errors = <<>>,
        v |-> IF end.errors = <<>> THEN end.warnings ELSE end.errors,
        evaluated |-> end.evaluated]

\* ValidatorAgent::add_rule(rule)
add_rule(rule) ==
    /\ Len(validator.rules) < MaxRules
    /\ validator' = [validator EXCEPT !.rules = Append(@, rule)]
    /\ UNCHANGED <<validated, notValidator>>

\* ValidatorAgent::add_length_rule(min, max, critical)
add_length_rule(min_len, max_len, critical) ==
    /\ Len(validator.rules) < MaxRules
    /\ validator' = [validator EXCEPT
                        !.rules = Append(@, [name |-> "length_check", kind |-> "length",
                                             critical |-> critical,
                                             min |-> min_len, max |-> max_len])]
    /\ UNCHANGED <<validated, notValidator>>

\* ValidatorAgent::with_success_route(node_id)
with_success_route(node_id) ==
    /\ validator' = [validator EXCEPT !.next_node_on_success = Some(node_id)]
    /\ UNCHANGED <<validated, notValidator>>

\* ValidatorAgent::with_failure_route(node_id)
with_failure_route(node_id) ==
    /\ validator' = [validator EXCEPT !.next_node_on_failure = Some(node_id)]
    /\ UNCHANGED <<validated, notValidator>>

\* ValidatorAgent::with_strict_mode(strict)
with_strict_mode(strict) ==
    /\ validator' = [validator EXCEPT !.strict_mode = strict]
    /\ UNCHANGED <<validated, notValidator>>

\* ValidatorAgent::run(input, _)
validator_run(in) ==
    LET r == validate(validator, in)
    IN /\ validated' =
             [called |-> TRUE, agent |-> validator, input |-> in,
              evaluated |-> r.evaluated,
              output |-> IF r.ok
                         THEN "Validation passed for: " \o in
                                \o (IF r.v # <<>> THEN "\nWarnings: " \o join(r.v, ", ")
                                    ELSE "")
                         ELSE "Validation failed for: " \o in
                                \o "\nErrors: " \o join(r.v, ", "),
              next_id |-> IF r.ok THEN validator.next_node_on_success
                          ELSE validator.next_node_on_failure]
       /\ UNCHANGED <<validator, notValidator>>

----------------------------------------------------------------------------
(* agents/parallel.rs: ParallelAgent. run makes one future per inner agent *)
(* and awaits them together on its own task; a future locks the Mutex of   *)
(* its agent, runs the agent under the guard and yields its output. A      *)
(* Mutex is 0 when free, else the index of the future holding its guard.   *)

CombineStrategies == {"Concatenate", "FirstValid", "JsonArray", "Custom"}

\* the combiner handed to CombineStrategy::Custom: the number of results
combiner(results) == ToString(Len(results)) \o " results"

\* ParallelAgent::combine_results
combine_results(strategy, results) ==
    CASE strategy = "Concatenate" -> join(results, "\n")
      [] strategy = "FirstValid" ->
            LET valid == SelectSeq(results, LAMBDA r : r # "")
            IN IF valid = <<>> THEN "" ELSE valid[1]
      [] strategy = "JsonArray" -> "[" \o json_array(results) \o "]"
      [] strategy = "Custom" -> combiner(results)

\* ParallelAgent::new(name)
ParallelAgent_new == [agents |-> <<>>, strategy |-> "Concatenate", timeout |-> None]

\* no run in progress. futures: per inner agent the state of its future, the
\* input it holds and its output; elapsed: the deadline has passed.
\* History: late (some future was not done when the deadline passed),
\* finished (the futures in the order they completed), invoked (per inner
\* agent the calls of its run), how (the way run returned), combined (the list handed
\* to combine_results)
NoParRun ==
    [pc |-> "idle", input |-> "", futures |-> <<>>, elapsed |-> FALSE,
     late |-> FALSE, finished |-> <<>>, invoked |-> <<>>, how |-> "",
     combined |-> [some |-> FALSE, v |-> <<>>],
     ret |-> [output |-> "", next_id |-> None]]

\* faulty variant: the futures are made whether or not there are agents
ParallelAgent_run_noEmptyCheck(agent, in) ==
    [NoParRun EXCEPT !.pc = "joining", !.input = in,
                     !.futures = [i \in 1..Len(agent.agents) |->
                                     [st |-> "created", input |-> in, output |-> ""]],
                     !.invoked = [i \in 1..Len(agent.agents) |-> <<>>]]

\* ParallelAgent::run up to its await: the early return, or the futures
ParallelAgent_run(agent, in) ==
    IF agent.agents = <<>>
    THEN [NoParRun EXCEPT !.pc = "returned", !.input = in, !.how = "empty",
                          !.ret = [output |-> "No agents configured for parallel execution",
                                   next_id |-> None]]
    ELSE [NoParRun EXCEPT !.pc = "joining", !.input = in,
                          !.futures = [i \in 1..Len(agent.agents) |->
                                          [st |-> "created", input |-> in, output |-> ""]],
                          !.invoked = [i \in 1..Len(agent.agents) |-> <<>>]]

\* faulty variant: every future locks the Mutex of the first agent
lock_of_first(i) == 1

\* the Mutex the i-th future locks: the clone of the i-th Arc
lock_of(i) == i

\* faulty variant: the results in the order the futures completed
join_all_completionOrder(run) ==
    [k \in 1..Len(run.finished) |-> run.futures[run.finished[k]].output]

\* join_all(futures).await: the outputs in the order of the futures
join_all(run) == [i \in 1..Len(run.futures) |-> run.futures[i].output]

\* faulty variant: the outputs of the futures that are done are combined
elapsed_partial(agent, run) ==
    LET done == SelectSeq(run.futures, LAMBDA f : f.st = "done")
        results == [i \in 1..Len(done) |-> done[i].output]
    IN [agent |-> [agent EXCEPT !.agents = [i \in 1..Len(@) |-> [@[i] EXCEPT !.lock = 0]]],
        run |-> [run EXCEPT !.pc = "returned", !.how = "timeout",
                            !.futures = [i \in 1..Len(@) |->
                                            IF @[i].st = "done" THEN @[i]
                                            ELSE [@[i] EXCEPT !.st = "dropped"]],
                            !.ret = [output |-> combine_results(agent.strategy, results),
                                     next_id |-> None]]]

\* faulty variant: the futures are tasks of their own, which stay as they are
elapsed_detached(agent, run) ==
    [agent |-> agent,
     run |-> [run EXCEPT !.pc = "returned", !.how = "timeout",
                         !.ret = [output |-> "Parallel execution timed out",
                                  next_id |-> None]]]

\* the Err(_) arm of the timeout: run returns, which drops the futures, and
\* with each future the guard it holds
elapsed(agent, run) ==
    [agent |-> [agent EXCEPT !.agents = [i \in 1..Len(@) |-> [@[i] EXCEPT !.lock = 0]]],
     run |-> [run EXCEPT !.pc = "returned", !.how = "timeout",
                         !.futures = [i \in 1..Len(@) |->
                                         IF @[i].st = "done" THEN @[i]
                                         ELSE [@[i] EXCEPT !.st = "dropped"]],
                         !.ret = [output |-> "Parallel execution timed out",
                                  next_id |-> None]]]

\* ParallelAgent::add_agent(agent)
par_add_agent(agent) ==
    /\ par_run.pc = "idle"
    /\ Len(parallel.agents) < MaxAgents
    /\ parallel' = [parallel EXCEPT !.agents = Append(@, [agent |-> agent, lock |-> 0])]
    /\ UNCHANGED <<par_run, notParallel>>

\* ParallelAgent::with_strategy(strategy)
par_with_strategy(strategy) ==
    /\ par_run.pc = "idle"
    /\ parallel' = [parallel EXCEPT !.strategy = strategy]
    /\ UNCHANGED <<par_run, notParallel>>

\* ParallelAgent::with_timeout(timeout)
par_with_timeout(timeout) ==
    /\ par_run.pc = "idle"
    /\ parallel' = [parallel EXCEPT !.timeout = Some(timeout)]
    /\ UNCHANGED <<par_run, notParallel>>

\* ParallelAgent::run(input, tool_registry) is called
par_run_begin(in) ==
    /\ par_run.pc = "idle"
    /\ par_run' = ParallelAgent_run(parallel, in)
    /\ UNCHANGED <<parallel, notParallel>>

\* the i-th future is polled for the first time: agent.lock().await gets the
\* guard and agent_guard.run(&input_clone, tool_registry) is called
future_start(i) ==
    /\ par_run.pc = "joining"
    /\ i \in 1..Len(par_run.futures)
    /\ par_run.futures[i].st = "created"
    /\ parallel.agents[lock_of(i)].lock = 0
    /\ parallel' = [parallel EXCEPT !.agents[lock_of(i)].lock = i]
    /\ par_run' = [par_run EXCEPT
                      !.futures[i].st = "running",
                      !.invoked[i] = Append(@, [input |-> par_run.futures[i].input,
                                                locked |-> parallel'.agents[i].lock = i])]
    /\ UNCHANGED notParallel

\* the inner agent of the i-th future returns: the future yields the output
\* (.0 of what the agent returned) and its guard is dropped
future_finish(i) ==
    /\ par_run.pc = "joining"
    /\ i \in 1..Len(par_run.futures)
    /\ par_run.futures[i].st = "running"
    /\ parallel' = [parallel EXCEPT
                       !.agents = [j \in 1..Len(@) |->
                                      IF @[j].lock = i THEN [@[j] EXCEPT !.lock = 0]
                                      ELSE @[j]]]
    /\ par_run' = [par_run EXCEPT
                      !.futures[i].st = "done",
                      !.futures[i].output =
                          Agent_run(parallel.agents[i].agent, par_run.futures[i].input,
                                    tool_registry).output,
                      !.finished = Append(@, i)]
    /\ UNCHANGED notParallel

\* the deadline of tokio::time::timeout passes
timer_elapses ==
    /\ par_run.pc = "joining"
    /\ parallel.timeout.some
    /\ ~par_run.elapsed
    /\ par_run' = [par_run EXCEPT
                      !.elapsed = TRUE,
                      !.late = \E i \in 1..Len(par_run.futures) :
                                   par_run.futures[i].st # "done"]
    /\ UNCHANGED <<parallel, notParallel>>

\* faulty variant: the next id of the first inner agent that gave one is
\* handed on
join_returns_forwardsNextId ==
    /\ par_run.pc = "joining"
    /\ \A i \in 1..Len(par_run.futures) : par_run.futures[i].st = "done"
    /\ par_run' = [par_run EXCEPT
                      !.pc = "returned", !.how = "joined",
                      !.combined = [some |-> TRUE, v |-> join_all(par_run)],
                      !.ret = [output |-> combine_results(parallel.strategy,
                                                           join_all(par_run)),
                               next_id |->
                                   LET gave == {i \in 1..Len(parallel.agents) :
                                                   Agent_run(parallel.agents[i].agent,
                                                             par_run.input,
                                                             tool_registry).next_id.some}
                                   IN IF gave = {} THEN None
                                      ELSE Agent_run(
                                               parallel.agents[CHOOSE i \in gave :
                                                                   \A j \in gave : i <= j].agent,
                                               par_run.input, tool_registry).next_id]]
    /\ UNCHANGED <<parallel, notParallel>>

\* run is polled with every future done: join_all is ready (with a timeout,
\* the Ok arm: the timeout polls join_all before it looks at the deadline),
\* the results are combined and returned
join_returns ==
    /\ par_run.pc = "joining"
    /\ \A i \in 1..Len(par_run.futures) : par_run.futures[i].st = "done"
    /\ par_run' = [par_run EXCEPT
                      !.pc = "returned", !.how = "joined",
                      !.combined = [some |-> TRUE, v |-> join_all(par_run)],
                      !.ret = [output |-> combine_results(parallel.strategy,
                                                           join_all(par_run)),
                               next_id |-> None]]
    /\ UNCHANGED <<parallel, notParallel>>

\* run is polled after the deadline with a future that is not done
timeout_returns ==
    /\ par_run.pc = "joining"
    /\ par_run.elapsed
    /\ \E i \in 1..Len(par_run.futures) : par_run.futures[i].st # "done"
    /\ parallel' = elapsed(parallel, par_run).agent
    /\ par_run' = elapsed(parallel, par_run).run
    /\ UNCHANGED notParallel

\* the caller has the value run returned
par_run_end ==
    /\ par_run.pc = "returned"
    /\ par_run' = NoParRun
    /\ UNCHANGED <<parallel, notParallel>>

----------------------------------------------------------------------------
(* models/graph.rs: Graph *)

Node(agent) == [agent |-> agent, neighbors |-> <<>>, tool_registry |-> ToolRegistry_new]

\* faulty variant: the marker without its newline
NodeMissing_noNewline(id) == "Error: Node " \o ToString(id) \o " does not exist"

\* format!("Error: Node {} does not exist\n", id)
NodeMissing(id) == "Error: Node " \o ToString(id) \o " does not exist\n"

\* the unsafe block of Graph::run: the node's registry over the shared one,
\* then the node's agent run on the current input
\* faulty variant: the agent is run again, and the second answer is taken
invoke_twice(id, in) ==
    LET combined_registry ==
            CombinedToolRegistry_new(nodes[id].tool_registry, tool_registry)
        first == Inner_run(nodes[id].agent, in, combined_registry)
        r == Inner_run(first.agent, in, combined_registry)
    IN [node |-> id, input |-> in, output |-> r.output, next_id |-> r.next_id,
        registry |-> combined_registry, agent |-> r.agent]

invoke(id, in) ==
    LET combined_registry ==
            CombinedToolRegistry_new(nodes[id].tool_registry, tool_registry)
        r == Inner_run(nodes[id].agent, in, combined_registry)
    IN [node |-> id, input |-> in, output |-> r.output, next_id |-> r.next_id,
        registry |-> combined_registry, agent |-> r.agent]

\* faulty variant: the next agent is handed the old input again
route_keepsInput(id, in, output, next_id) ==
    IF next_id.some
    THEN IF contains_key(nodes, next_id.v)
         THEN [current_id |-> next_id.v, current_input |-> in,
               append |-> "", break |-> FALSE]
         ELSE [current_id |-> id, current_input |-> in,
               append |-> NodeMissing(next_id.v), break |-> TRUE]
    ELSE [current_id |-> id, current_input |-> in, append |-> "", break |-> TRUE]

\* faulty variant: a missing next node ends the run without the marker
route_noMarker(id, in, output, next_id) ==
    IF next_id.some
    THEN IF contains_key(nodes, next_id.v)
         THEN [current_id |-> next_id.v, current_input |-> output,
               append |-> "", break |-> FALSE]
         ELSE [current_id |-> id, current_input |-> in,
               append |-> "", break |-> TRUE]
    ELSE [current_id |-> id, current_input |-> in, append |-> "", break |-> TRUE]

\* faulty variant: a visited set, the run breaks when it would enter a node again
route_visitedSet(id, in, output, next_id) ==
    IF next_id.some
    THEN IF contains_key(nodes, next_id.v)
         THEN IF next_id.v = id \/ \E i \in 1..Len(calls) : calls[i].node = next_id.v
              THEN [current_id |-> id, current_input |-> in,
                    append |-> "", break |-> TRUE]
              ELSE [current_id |-> next_id.v, current_input |-> output,
                    append |-> "", break |-> FALSE]
         ELSE [current_id |-> id, current_input |-> in,
               append |-> NodeMissing(next_id.v), break |-> TRUE]
    ELSE [current_id |-> id, current_input |-> in, append |-> "", break |-> TRUE]

\* faulty variant: the transition is gated on adjacency
route_alongEdges(id, in, output, next_id) ==
    IF next_id.some
    THEN IF contains_key(nodes, next_id.v) /\ contains(nodes[id].neighbors, next_id.v)
         THEN [current_id |-> next_id.v, current_input |-> output,
               append |-> "", break |-> FALSE]
         ELSE [current_id |-> id, current_input |-> in,
               append |-> NodeMissing(next_id.v), break |-> TRUE]
    ELSE [current_id |-> id, current_input |-> in, append |-> "", break |-> TRUE]

\* match next_id { Some(next) => ..., None => break }
\* what the loop does with the agent's answer: where it goes on, with which
\* input, what it appends to result, and whether it breaks
route(id, in, output, next_id) ==
    IF next_id.some
    THEN IF contains_key(nodes, next_id.v)
         THEN [current_id |-> next_id.v, current_input |-> output,
               append |-> "", break |-> FALSE]
         ELSE [current_id |-> id, current_input |-> in,
               append |-> NodeMissing(next_id.v), break |-> TRUE]
    ELSE [current_id |-> id, current_input |-> in, append |-> "", break |-> TRUE]

\* faulty variant: the separator is forgotten
push_output_noNewline(res, output) == res \o output

\* result.push_str(&output); result.push('\n');
push_output(res, output) == res \o output \o "\n"

Graph_new ==
    /\ nodes = EmptyMap
    /\ tool_registry = ToolRegistry_new

\* the last management call: which, whether it returned Ok, and whether it
\* met something already there (the node of add_node, the edge of add_edge)
NoCall == [op |-> "none", ok |-> TRUE, again |-> FALSE]
Called(name, ok, again) == [op |-> name, ok |-> ok, again |-> again]

\* faulty variant: a node already there keeps its neighbors and its tools
Graph_add_node_keepsState(ns, id, agent) ==
    IF contains_key(ns, id) THEN [ns EXCEPT ![id].agent = agent]
    ELSE insert(ns, id, Node(agent))

\* self.nodes.insert(id, Node { agent, neighbors: Vec::new(), tool_registry: ToolRegistry::new() })
Graph_add_node(ns, id, agent) == insert(ns, id, Node(agent))

add_node(id, agent) ==
    /\ pc = "idle"
    /\ nodes' = Graph_add_node(nodes, id, agent)
    /\ joined' = {e \in joined : id \notin e}
    /\ mgmt' = Called("add_node", TRUE, contains_key(nodes, id))
    /\ UNCHANGED <<tool_registry, runVars, notGraph>>

\* faulty variant: each endpoint is pushed without looking for it first
Graph_add_edge_noContains(ns, u, v) ==
    IF ~contains_key(ns, u) \/ ~contains_key(ns, v)
    THEN [ok |-> FALSE, nodes |-> ns]
    ELSE LET n1 == [ns EXCEPT ![u].neighbors = Append(@, v)]
             n2 == [n1 EXCEPT ![v].neighbors = Append(@, u)]
         IN [ok |-> TRUE, nodes |-> n2]

\* faulty variant: the endpoint that exists is updated before the other one
\* is found missing
Graph_add_edge_pushesFirst(ns, u, v) ==
    LET n1 == IF contains_key(ns, u) /\ ~contains(ns[u].neighbors, v)
              THEN [ns EXCEPT ![u].neighbors = Append(@, v)]
              ELSE ns
        n2 == IF contains_key(n1, v) /\ ~contains(n1[v].neighbors, u)
              THEN [n1 EXCEPT ![v].neighbors = Append(@, u)]
              ELSE n1
    IN [ok |-> contains_key(ns, u) /\ contains_key(ns, v), nodes |-> n2]

\* Graph::add_edge on the node map ns: the Result, and the node map after it
Graph_add_edge(ns, u, v) ==
    IF ~contains_key(ns, u) \/ ~contains_key(ns, v)
    THEN [ok |-> FALSE, nodes |-> ns]    \* Err("One or both nodes do not exist")
    ELSE LET n1 == IF ~contains(ns[u].neighbors, v)
                   THEN [ns EXCEPT ![u].neighbors = Append(@, v)]
                   ELSE ns
             n2 == IF ~contains(n1[v].neighbors, u)
                   THEN [n1 EXCEPT ![v].neighbors = Append(@, u)]
                   ELSE n1
         IN [ok |-> TRUE, nodes |-> n2]

add_edge(u, v) ==
    LET r == Graph_add_edge(nodes, u, v)
    IN /\ pc = "idle"
       /\ nodes' = r.nodes
       /\ joined' = IF r.ok THEN joined \cup {{u, v}} ELSE joined
       /\ mgmt' = Called("add_edge", r.ok, {u, v} \in joined)
       /\ UNCHANGED <<tool_registry, runVars, notGraph>>

register_tool(tool, function) ==
    /\ pc = "idle"
    /\ tool_registry' = ToolRegistry_register_tool(tool_registry, tool, function)
    /\ mgmt' = Called("register_tool", TRUE, FALSE)
    /\ UNCHANGED <<nodes, joined, runVars, notGraph>>

\* faulty variant: a tool for a node that is missing goes to the global registry
register_tool_for_node_fallsBack(node_id, tool, function) ==
    /\ pc = "idle"
    /\ IF contains_key(nodes, node_id)
       THEN /\ nodes' = [nodes EXCEPT ![node_id].tool_registry =
                            ToolRegistry_register_tool(@, tool, function)]
            /\ UNCHANGED tool_registry
       ELSE /\ tool_registry' = ToolRegistry_register_tool(tool_registry, tool, function)
            /\ UNCHANGED nodes
    /\ mgmt' = Called("register_tool_for_node", contains_key(nodes, node_id), FALSE)
    /\ UNCHANGED <<joined, runVars, notGraph>>

\* Graph::register_tool_for_node(node_id, tool, function)
register_tool_for_node(node_id, tool, function) ==
    /\ pc = "idle"
    /\ IF contains_key(nodes, node_id)
       THEN nodes' = [nodes EXCEPT ![node_id].tool_registry =
                         ToolRegistry_register_tool(@, tool, function)]
       ELSE UNCHANGED nodes     \* Err("Node {} does not exist")
    /\ mgmt' = Called("register_tool_for_node", contains_key(nodes, node_id), FALSE)
    /\ UNCHANGED <<tool_registry, joined, runVars, notGraph>>

\* Graph::run, entry: the three locals are initialised
run_begin(start, in) ==
    /\ pc = "idle"
    /\ pc' = "running"
    /\ start_id' = start
    /\ input' = in
    /\ current_id' = start
    /\ current_input' = in
    /\ result' = ""
    /\ calls' = <<>>
    /\ UNCHANGED <<graphVars, mgmtVars, notGraph>>

\* faulty variant: a transition taken is recorded as an edge of the graph
run_loop_recordsEdge ==
    /\ pc = "running"
    /\ Len(calls) < MaxSteps
    /\ IF ~contains_key(nodes, current_id)
       THEN /\ result' = result \o NodeMissing(current_id)
            /\ pc' = "returned"
            /\ UNCHANGED <<nodes, current_id, current_input, calls>>
       ELSE LET c == invoke(current_id, current_input)
                r == route(current_id, current_input, c.output, c.next_id)
                ns == [nodes EXCEPT ![current_id].agent = c.agent]
            IN /\ nodes' = IF c.next_id.some
                           THEN Graph_add_edge(ns, current_id, c.next_id.v).nodes
                           ELSE ns
               /\ calls' = Append(calls, c)
               /\ result' = push_output(result, c.output) \o r.append
               /\ current_id' = r.current_id
               /\ current_input' = r.current_input
               /\ pc' = IF r.break THEN "returned" ELSE "running"
    /\ UNCHANGED <<tool_registry, mgmtVars, start_id, input, notGraph>>

\* Graph::run, one iteration of the loop
run_loop ==
    /\ pc = "running"
    /\ Len(calls) < MaxSteps
    /\ IF ~contains_key(nodes, current_id)
       THEN /\ result' = result \o NodeMissing(current_id)
            /\ pc' = "returned"
            /\ UNCHANGED <<nodes, current_id, current_input, calls>>
       ELSE LET c == invoke(current_id, current_input)
                r == route(current_id, current_input, c.output, c.next_id)
            IN /\ nodes' = [nodes EXCEPT ![current_id].agent = c.agent]
               /\ calls' = Append(calls, c)
               /\ result' = push_output(result, c.output) \o r.append
               /\ current_id' = r.current_id
               /\ current_input' = r.current_input
               /\ pc' = IF r.break THEN "returned" ELSE "running"
    /\ UNCHANGED <<tool_registry, mgmtVars, start_id, input, notGraph>>

\* the caller takes the returned transcript; the graph can be used again
run_return ==
    /\ pc = "returned"
    /\ pc' = "idle"
    /\ start_id' = 0
    /\ input' = ""
    /\ current_id' = 0
    /\ current_input' = ""
    /\ result' = ""
    /\ calls' = <<>>
    /\ UNCHANGED <<graphVars, mgmtVars, notGraph>>

----------------------------------------------------------------------------
(* Calls on registries held by a caller *)

\* The calls below take &self and leave the registries as they are: `op`
\* records one call at a time, and is cleared when the caller goes on.
NoOp == [kind |-> "none", name |-> "", arguments |-> "", ret |-> Ok(""),
         invoked |-> <<>>, listed |-> <<>>]

\* registry.register_tool(tool, function) on one of the two registries
registry_register_tool(which, tool, function) ==
    /\ op = NoOp
    /\ IF which = "primary"
       THEN /\ primary' = ToolRegistry_register_tool(primary, tool, function)
            /\ UNCHANGED secondary
       ELSE /\ secondary' = ToolRegistry_register_tool(secondary, tool, function)
            /\ UNCHANGED primary
    /\ latest' = IF which = "primary"
                 THEN insert(latest, tool.name,
                             [tool |-> tool, function |-> function,
                              again |-> contains_key(latest, tool.name)])
                 ELSE latest
    /\ op' = NoOp
    /\ UNCHANGED notTools

\* primary.execute_tool(name, arguments)
registry_execute_tool(name, arguments) ==
    LET r == ToolRegistry_execute_tool(primary, name, arguments)
    IN /\ op = NoOp
       /\ op' = [kind |-> "execute_tool", name |-> name, arguments |-> arguments,
                 ret |-> r.ret, invoked |-> r.invoked, listed |-> <<>>]
       /\ UNCHANGED <<notTools, primary, secondary, latest>>

\* primary.get_tools()
registry_get_tools(order) ==
    /\ op = NoOp
    /\ op' = [kind |-> "get_tools", name |-> "", arguments |-> "",
              ret |-> Ok(""), invoked |-> <<>>,
              listed |-> ToolRegistry_get_tools(primary, order)]
    /\ UNCHANGED <<notTools, primary, secondary, latest>>

\* CombinedToolRegistry::new(&primary, &secondary).execute_tool(name, arguments)
combined_execute_tool(name, arguments) ==
    LET r == CombinedToolRegistry_execute_tool(
                 CombinedToolRegistry_new(primary, secondary), name, arguments)
    IN /\ op = NoOp
       /\ op' = [kind |-> "combined_execute_tool", name |-> name,
                 arguments |-> arguments,
                 ret |-> r.ret, invoked |-> r.invoked, listed |-> <<>>]
       /\ UNCHANGED <<notTools, primary, secondary, latest>>

\* CombinedToolRegistry::new(&primary, &secondary).get_tools()
combined_get_tools(porder, sorder) ==
    /\ op = NoOp
    /\ op' = [kind |-> "combined_get_tools", name |-> "", arguments |-> "",
              ret |-> Ok(""), invoked |-> <<>>,
              listed |-> CombinedToolRegistry_get_tools(
                             CombinedToolRegistry_new(primary, secondary),
                             porder, sorder)]
    /\ UNCHANGED <<notTools, primary, secondary, latest>>

\* the caller has taken what the call returned
call_returned ==
    /\ op # NoOp
    /\ op' = NoOp
    /\ UNCHANGED <<notTools, primary, secondary, latest>>

----------------------------------------------------------------------------
(* Specifications *)

Init ==
    /\ Graph_new
    /\ pc = "idle"
    /\ start_id = 0
    /\ input = ""
    /\ current_id = 0
    /\ current_input = ""
    /\ result = ""
    /\ calls = <<>>
    /\ primary = ToolRegistry_new
    /\ secondary = ToolRegistry_new
    /\ op = NoOp
    /\ latest = EmptyMap
    /\ joined = {}
    /\ mgmt = NoCall
    /\ retry_agent = RetryAgent_new(FlakeyAgent(2))
    /\ retry_run = NoRun
    /\ events = <<>>
    /\ stateful = StatefulAgent_new
    /\ last_call = NoStateCall
    /\ new_agent = NoAgent
    /\ since_empty = Empty
    /\ state_mutex = [held |-> FALSE, pc |-> "idle", input |-> "",
                      ret |-> [output |-> "", next_id |-> None],
                      read_at |-> "none", returned |-> {}]
    /\ parallel = ParallelAgent_new
    /\ par_run = NoParRun
    /\ router = RouterAgent_new
    /\ routed = [called |-> FALSE, agent |-> RouterAgent_new, input |-> "",
                 output |-> "", next_id |-> None]
    /\ validator = ValidatorAgent_new
    /\ validated = [called |-> FALSE, agent |-> ValidatorAgent_new, input |-> "",
                    evaluated |-> 0, output |-> "", next_id |-> None]

\* building a graph of agents and edges, and running it
Next ==
    \/ \E id \in NodeIds, a \in Agents : add_node(id, a)
    \/ \E u \in TargetIds, v \in TargetIds : add_edge(u, v)
    \/ \E s \in TargetIds, in \in Inputs : run_begin(s, in)
    \/ run_loop
    \/ run_return

Spec == Init /\ [][Next]_vars

\* two registries and the combined registry over them
NextTools ==
    \/ \E which \in {"primary", "secondary"}, r \in Registrations :
          registry_register_tool(which, r[1], r[2])
    \/ \E n \in AskedNames, a \in Arguments : registry_execute_tool(n, a)
    \/ \E o \in Orders(DOMAIN primary.tools) : registry_get_tools(o)
    \/ \E n \in AskedNames, a \in Arguments : combined_execute_tool(n, a)
    \/ \E po \in Orders(DOMAIN primary.tools), so \in Orders(DOMAIN secondary.tools) :
          combined_get_tools(po, so)
    \/ call_returned

SpecTools == Init /\ [][NextTools]_vars

\* a graph with shared and node-local tools, and running it
ViewRegistrations == {r \in Registrations : r[1].name = "X"}
NextView ==
    \/ \E id \in NodeIds, a \in {EchoAgent, FixedRouteAgent(0), FixedRouteAgent(1)} :
          add_node(id, a)
    \/ \E r \in ViewRegistrations : register_tool(r[1], r[2])
    \/ \E id \in TargetIds, r \in ViewRegistrations : register_tool_for_node(id, r[1], r[2])
    \/ \E s \in NodeIds : run_begin(s, "hi")
    \/ run_loop
    \/ run_return

SpecView == Init /\ [][NextView]_vars

\* a RetryAgent over the agents of the test suite, configured and run
RetryInners ==
    {FlakeyAgent(k) : k \in 0..MaxFailures} \cup {EchoAgent, FixedRouteAgent(1)}
NextRetry ==
    \/ \E inner \in RetryInners : retry_new(inner)
    \/ \E max \in 0..MaxRetries : with_max_retries(max)
    \/ \E strategy \in Strategies : with_strategy(strategy)
    \/ with_retry_condition("contains_error")
    \/ \E in \in RetryInputs : RetryAgent_run_begin(in)
    \/ RetryAgent_run_sleep
    \/ RetryAgent_run_attempt
    \/ RetryAgent_run_end

SpecRetry == Init /\ [][NextRetry]_vars

\* a StatefulAgent, built, run, and its state replaced
NextState ==
    \/ with_processor("doc_processor")
    \/ \E max \in MaxHistories : with_max_history(max)
    \/ \E st \in SampleStates : set_state(st)
    \/ clear_state
    \/ \E json \in LoadTexts : load_state(json)
    \/ \E in \in StateInputs : stateful_run(in)
    \/ \E o \in Orders(DOMAIN stateful.state.data) : save_state(o)
    \/ new_agent_load_state
    \/ new_agent_dropped

SpecState == Init /\ [][NextState]_vars

\* a StatefulAgent whose callers all go through its Mutex: run goes on
\* statement by statement, the other calls wait while the Mutex is held
NextLock ==
    \/ with_processor("doc_processor")
    \/ \E max \in MaxHistories : with_max_history(max)
    \/ \E in \in StateInputs : mutex_lock(in)
    \/ run_step
    \/ run_drop
    \/ get_state
    \/ \E st \in SampleStates : ~state_mutex.held /\ set_state(st)
    \/ \E o \in Orders(DOMAIN stateful.state.data) : ~state_mutex.held /\ save_state(o)

SpecLock == Init /\ [][NextLock]_vars

\* building a graph: nodes, edges, shared and node-local tools
NextBuild ==
    \/ \E id \in NodeIds, a \in {EchoAgent, FixedRouteAgent(1)} : add_node(id, a)
    \/ \E u \in TargetIds, v \in TargetIds : add_edge(u, v)
    \/ \E r \in ViewRegistrations : register_tool(r[1], r[2])
    \/ \E id \in TargetIds, r \in ViewRegistrations : register_tool_for_node(id, r[1], r[2])

SpecBuild == Init /\ [][NextBuild]_vars

\* a graph with agents that keep state, with edges and tools, run from agents
\* that have not run yet
NextRevisit ==
    \/ \E id \in NodeIds,
          a \in {EchoAgent, FixedRouteAgent(0), StatefulRouteAgent(0),
                 StatefulRouteAgent(1)} : add_node(id, a)
    \/ add_edge(0, 1)
    \/ register_tool(Tool("X", "answers"), Answering)
    \/ register_tool_for_node(0, Tool("X", "answers"), Answering)
    \/ \E s \in NodeIds, in \in Inputs :
          /\ \A id \in DOMAIN nodes :
                nodes[id].agent.kind = "Stateful" => nodes[id].agent.execution_count = 0
          /\ run_begin(s, in)
    \/ run_loop
    \/ run_return

SpecRevisit == Init /\ [][NextRevisit]_vars

\* a ParallelAgent, built and run; its futures advance in any order
NextParallel ==
    \/ \E a \in {EchoAgent, FixedRouteAgent(0), FixedRouteAgent(1)} : par_add_agent(a)
    \/ \E st \in CombineStrategies : par_with_strategy(st)
    \/ par_with_timeout(100)
    \/ \E in \in Inputs : par_run_begin(in)
    \/ \E i \in 1..MaxAgents : future_start(i)
    \/ \E i \in 1..MaxAgents : future_finish(i)
    \/ timer_elapses
    \/ join_returns
    \/ timeout_returns
    \/ par_run_end

SpecParallel == Init /\ [][NextParallel]_vars

\* a RouterAgent, built and run
NextRouter ==
    \/ \E rule \in RouteRules : add_route(rule)
    \/ set_default(3)
    \/ \E sensitive \in BOOLEAN : set_case_sensitive(sensitive)
    \/ \E in \in {"I found a bug", "What's the pricing?", "General question",
                   "a@b buy"} : router_run(in)

SpecRouter == Init /\ [][NextRouter]_vars

\* a ValidatorAgent, built and run
NextValidator ==
    \/ \E critical \in BOOLEAN : add_rule(no_profanity(critical))
    \/ \E critical \in BOOLEAN : add_length_rule(Some(5), Some(8), critical)
    \/ with_success_route(1)
    \/ with_failure_route(2)
    \/ \E strict \in BOOLEAN : with_strict_mode(strict)
    \/ \E in \in {"Hello", "Hi", "bad_word", "a bad_word"} : validator_run(in)

SpecValidator == Init /\ [][NextValidator]_vars

----------------------------------------------------------------------------
(* Properties of Graph::run *)

last(s) == s[Len(s)]

RECURSIVE Joined(_)
\* every output of the log followed by one newline, in invocation order
Joined(log) ==
    IF log = <<>> THEN ""
    ELSE Joined(SubSeq(log, 1, Len(log) - 1)) \o last(log).output \o "\n"

\* the answer ends the run: no next id, or a next id that is no node
Terminal(next_id) == ~next_id.some \/ next_id.v \notin DOMAIN nodes

\* C1: the first invoked agent is the start node's and receives the caller's
\* input unchanged; every later invocation is of the node the preceding agent
\* named, with exactly the preceding agent's output as its input
C1_OutputIsNextInput ==
    /\ calls # <<>> => calls[1].node = start_id /\ calls[1].input = input
    /\ \A i \in 2..Len(calls) :
          /\ calls[i].input = calls[i-1].output
          /\ calls[i-1].next_id = Some(calls[i].node)
    /\ (pc = "running" /\ calls # <<>>) =>
          /\ current_input = last(calls).output
          /\ Some(current_id) = last(calls).next_id

C1_Witness ==
    /\ Len(calls) >= 3
    /\ calls[1].node # calls[2].node
    /\ calls[2].input # input
    /\ calls[3].input # calls[2].input

\* C2: the transcript is every invoked agent's output followed by a newline, in
\* invocation order, and a run ended by "no next id" returns nothing more; the
\* FixedRoute(1) / Echo chain started at 0 with "hi" returns the two lines
C2_Transcript ==
    /\ pc = "running" => result = Joined(calls)
    /\ (pc = "returned" /\ calls # <<>> /\ ~last(calls).next_id.some) =>
          result = Joined(calls)
    /\ (/\ pc = "returned" /\ start_id = 0 /\ input = "hi"
        /\ DOMAIN nodes = {0, 1}
        /\ nodes[0].agent = FixedRouteAgent(1)
        /\ nodes[1].agent = EchoAgent) =>
          result = "Routing 'hi' to node 1\nEcho: Routing 'hi' to node 1\n"

C2_Witness ==
    /\ pc = "returned" /\ start_id = 0 /\ input = "hi"
    /\ DOMAIN nodes = {0, 1}
    /\ nodes[0].agent = FixedRouteAgent(1)
    /\ nodes[1].agent = EchoAgent
    /\ Len(calls) = 2

\* C3: a run started at an id that is no node invokes no agent and returns
\* exactly "Error: Node <id> does not exist\n"
C3_MissingStart ==
    (pc # "idle" /\ start_id \notin DOMAIN nodes) =>
        /\ calls = <<>>
        /\ pc = "returned" =>
              result = "Error: Node " \o ToString(start_id) \o " does not exist\n"
        /\ pc = "running" => result = "" /\ ENABLED run_loop

C3_Witness ==
    /\ pc = "returned" /\ start_id = 7 /\ nodes # EmptyMap
    /\ result = "Error: Node 7 does not exist\n"

\* C4: an answer naming a next id that is no node ends the run at that step:
\* it is the last invocation, its output and newline are in the transcript,
\* the marker for the named id follows, and run has returned
C4_MissingNext ==
    \A i \in 1..Len(calls) :
        (calls[i].next_id.some /\ calls[i].next_id.v \notin DOMAIN nodes) =>
            /\ i = Len(calls)
            /\ pc = "returned"
            /\ result = Joined(calls) \o "Error: Node "
                         \o ToString(calls[i].next_id.v) \o " does not exist\n"

C4_Witness ==
    /\ Len(calls) = 2
    /\ calls[2].next_id = Some(7)
    /\ result = "Routing 'hi' to node 0\nRouting 'Routing 'hi' to node 0' to node 7\n"
                 \o "Error: Node 7 does not exist\n"

\* every node of the graph routes to a node of the graph
AlwaysRoutes ==
    \A n \in DOMAIN nodes :
        /\ nodes[n].agent.kind = "FixedRoute"
        /\ nodes[n].agent.target_node \in DOMAIN nodes

RECURSIVE Replay(_, _, _, _)
\* the transcript of at most k invocations from node id with input in, in a
\* graph that has these agents and no edge at all
Replay(agents, id, in, k) ==
    IF id \notin DOMAIN agents
    THEN "Error: Node " \o ToString(id) \o " does not exist\n"
    ELSE IF k = 0 THEN ""
    ELSE LET r == Agent_run(agents[id], in, CombinedToolRegistry_new(ToolRegistry_new, ToolRegistry_new))
         IN r.output \o "\n" \o
            (IF r.next_id.some THEN Replay(agents, r.next_id.v, r.output, k - 1) ELSE "")

\* C6: whenever an agent names a next id that is a node, the run moves there,
\* whether or not the two nodes were ever joined by add_edge; the transcript
\* returned is the one of the graph with the same agents and no edges
C6_AdjacencyIgnored ==
    /\ \A i \in 1..Len(calls) :
          (calls[i].next_id.some /\ calls[i].next_id.v \in DOMAIN nodes) =>
              /\ i < Len(calls) => calls[i+1].node = calls[i].next_id.v
              /\ i = Len(calls) => pc = "running" /\ current_id = calls[i].next_id.v
    /\ pc = "returned" =>
          result = Replay([n \in DOMAIN nodes |-> nodes[n].agent], start_id, input, Len(calls))

C6_Witness ==
    /\ Len(calls) >= 2
    /\ calls[2].node # calls[1].node
    /\ ~contains(nodes[calls[1].node].neighbors, calls[2].node)
    /\ ~contains(nodes[calls[2].node].neighbors, calls[1].node)
    /\ \E n \in DOMAIN nodes : nodes[n].neighbors # <<>>

\* the invocations of the agent of node n in the run so far
InvocationsOf(n) == {i \in 1..Len(calls) : calls[i].node = n}

\* C28: an iteration of the loop of Graph::run whose current node exists
\* invokes the agent of that node, with the current input, once, and no
\* other agent: an agent with state at the current node has then seen one
\* execution more, every other agent is as it was; so in a run the agent of a
\* node has been executed as often as the node was the current node
C28_OneInvocationPerStep ==
    [][/\ pc # "idle" =>
             \A n \in DOMAIN nodes :
                 nodes[n].agent.kind = "Stateful"
                     => nodes[n].agent.execution_count = Cardinality(InvocationsOf(n))
       /\ run_loop =>
             IF contains_key(nodes, current_id)
             THEN /\ Len(calls') = Len(calls) + 1
                  /\ SubSeq(calls', 1, Len(calls)) = calls
                  /\ calls'[Len(calls')].node = current_id
                  /\ calls'[Len(calls')].input = current_input
                  /\ \A n \in DOMAIN nodes :
                        IF n = current_id /\ nodes[n].agent.kind = "Stateful"
                        THEN nodes'[n].agent.execution_count
                                 = nodes[n].agent.execution_count + 1
                        ELSE nodes'[n] = nodes[n]
             ELSE calls' = calls /\ nodes' = nodes]_vars

\* a run has gone from node 0 to node 1 and back to node 0: the agent with
\* state at node 0 has seen two executions
C28_Witness ==
    /\ pc = "running"
    /\ Len(calls) = 3
    /\ calls[1].node = 0 /\ calls[2].node = 1 /\ calls[3].node = 0
    /\ nodes[0].agent.kind = "Stateful"
    /\ nodes[0].agent.execution_count = 2
    /\ calls[3].output = "Execution #2"

----------------------------------------------------------------------------
(* Properties of the registries *)

names(listed) == {listed[i].name : i \in 1..Len(listed)}

\* C7: when the primary registry has a tool called name, execute_tool of the
\* combined registry is the primary's execute_tool alone: it returns what the
\* primary returns, an error of the primary's callable included, and invokes
\* nothing of the secondary
C7_MembershipDispatch ==
    (op.kind = "combined_execute_tool" /\ contains_key(primary.functions, op.name)) =>
        /\ op.ret = ToolRegistry_execute_tool(primary, op.name, op.arguments).ret
        /\ op.invoked = ToolRegistry_execute_tool(primary, op.name, op.arguments).invoked

\* C8: get_tools of the combined registry lists every name of either registry
\* once, with the primary's definition for a name the primary has; for
\* primary = {X, Y} and secondary = {X, Z} that is 3 entries, the primary's X
\* and Y and the secondary's Z
C8_UnionPrimaryWins ==
    op.kind = "combined_get_tools" =>
        /\ names(op.listed) = DOMAIN primary.tools \cup DOMAIN secondary.tools
        /\ \A i, j \in 1..Len(op.listed) :
              op.listed[i].name = op.listed[j].name => i = j
        /\ \A i \in 1..Len(op.listed) :
              op.listed[i] = IF contains_key(primary.tools, op.listed[i].name)
                             THEN primary.tools[op.listed[i].name]
                             ELSE secondary.tools[op.listed[i].name]
        /\ (DOMAIN primary.tools = {"X", "Y"} /\ DOMAIN secondary.tools = {"X", "Z"}) =>
              /\ Len(op.listed) = 3
              /\ {op.listed[i] : i \in 1..3} =
                    {primary.tools["X"], primary.tools["Y"], secondary.tools["Z"]}

C8_Witness ==
    /\ op.kind = "combined_get_tools"
    /\ DOMAIN primary.tools = {"X", "Y"}
    /\ DOMAIN secondary.tools = {"X", "Z"}
    /\ primary.tools["X"] # secondary.tools["X"]
    /\ Len(op.listed) = 3

\* C10 as stated: execute_tool of a name that is not registered fails with
\* the tool-not-found error for every argument string; arguments that do not
\* parse fail with the parse error; otherwise the callable is invoked once and
\* its result returned; no callable is invoked in a failure case
C10_NotFoundForEveryArgs ==
    op.kind = "execute_tool" =>
        IF ~contains_key(primary.functions, op.name)
        THEN /\ op.ret = Err("Tool '" \o op.name \o "' not found")
             /\ op.invoked = <<>>
        ELSE IF ~from_str(op.arguments).ok
        THEN /\ op.ret = Err("Failed to parse arguments: " \o from_str(op.arguments).v)
             /\ op.invoked = <<>>
        ELSE /\ op.ret = call(primary.functions[op.name], from_str(op.arguments).v)
             /\ op.invoked = <<[function |-> primary.functions[op.name],
                                args |-> from_str(op.arguments).v]>>

\* C10, amended: arguments that do not parse fail with the parse error,
\* whether or not the name is registered; with arguments that parse, a name
\* that is not registered fails with the tool-not-found error; otherwise the
\* callable is invoked exactly once and its Ok or Err is returned unchanged;
\* no callable is invoked in either failure case
C10_ParseBeforeLookup ==
    op.kind = "execute_tool" =>
        IF ~from_str(op.arguments).ok
        THEN /\ op.ret = Err("Failed to parse arguments: " \o from_str(op.arguments).v)
             /\ op.invoked = <<>>
        ELSE IF ~contains_key(primary.functions, op.name)
        THEN /\ op.ret = Err("Tool '" \o op.name \o "' not found")
             /\ op.invoked = <<>>
        ELSE /\ op.ret = call(primary.functions[op.name], from_str(op.arguments).v)
             /\ op.invoked = <<[function |-> primary.functions[op.name],
                                args |-> from_str(op.arguments).v]>>

C10_Witness ==
    /\ op.kind = "execute_tool"
    /\ op.name = "W" /\ op.arguments = "oops"
    /\ primary.functions # EmptyMap
    /\ op.ret = Err("Failed to parse arguments: expected value at line 1 column 1")

\* the names execute_tool finds a callable for, given arguments that parse
Executable(reg) ==
    {n \in AskedNames :
        ToolRegistry_execute_tool(reg, n, "{}").ret # Err("Tool '" \o n \o "' not found")}

\* C11: registration is last-write-wins by name: get_tools lists exactly one
\* tool per registered name and it is the definition registered last under
\* that name, execute_tool of a registered name invokes the callable
\* registered last under it, and the listed names are the executable names
C11_LastWriteWins ==
    /\ op.kind = "get_tools" =>
          /\ Len(op.listed) = Cardinality(DOMAIN latest)
          /\ names(op.listed) = DOMAIN latest
          /\ \A i \in 1..Len(op.listed) :
                op.listed[i] = latest[op.listed[i].name].tool
    /\ (op.kind = "execute_tool" /\ from_str(op.arguments).ok) =>
          IF op.name \in DOMAIN latest
          THEN op.invoked = <<[function |-> latest[op.name].function,
                               args |-> from_str(op.arguments).v]>>
          ELSE op.invoked = <<>>
    /\ \A o \in Orders(DOMAIN primary.tools) :
          names(ToolRegistry_get_tools(primary, o)) = Executable(primary)
    /\ Executable(primary) = DOMAIN latest

\* a name registered twice with different definitions and callables, then
\* listed and executed
C11_Witness ==
    /\ \E n \in DOMAIN latest : latest[n].again /\ latest[n].function = Failing
    /\ \/ op.kind = "get_tools" /\ Len(op.listed) = 2
       \/ /\ op.kind = "execute_tool" /\ op.name \in DOMAIN latest
          /\ latest[op.name].again /\ op.invoked # <<>>

\* the structure of the graph: the node ids, each node's neighbor list and
\* local registry, and the global registry
Structure ==
    [ids |-> DOMAIN nodes,
     neighbors |-> [n \in DOMAIN nodes |-> nodes[n].neighbors],
     local |-> [n \in DOMAIN nodes |-> nodes[n].tool_registry],
     global |-> tool_registry]

\* C36: Graph.run changes no graph structure: from the call of run to its
\* return no step changes the set of node ids, a node's neighbor list, a
\* node's local registry or the global registry
C36_RunKeepsStructure ==
    [][(pc # "idle" \/ pc' # "idle") => Structure' = Structure]_vars

\* a run has returned in a graph with an edge, a local tool and a global tool,
\* having changed the private state of an agent
C36_Witness ==
    /\ pc = "returned"
    /\ Len(calls) >= 2
    /\ tool_registry.tools # EmptyMap
    /\ \E n \in DOMAIN nodes :
          /\ nodes[n].agent.kind = "Stateful"
          /\ nodes[n].agent.execution_count > 0
          /\ nodes[n].neighbors # <<>>
          /\ nodes[n].tool_registry.tools # EmptyMap

----------------------------------------------------------------------------
(* Properties of building a graph *)

\* how many times x occurs in the Vec s
Count(s, x) == Cardinality({i \in 1..Len(s) : s[i] = x})

\* C12: add_edge is symmetric and idempotent: once add_edge has succeeded for
\* u and v, in either order and however often, and neither was added again
\* since, u's neighbors hold v exactly once and v's hold u exactly once (a
\* node joined to itself holds itself exactly once)
C12_EdgeOnceBothWays ==
    \A e \in joined : \A u \in e, v \in e :
        (u # v \/ e = {u}) =>
            /\ contains_key(nodes, u)
            /\ Count(nodes[u].neighbors, v) = 1

\* an edge added again, between two nodes of which one is also joined to itself
C12_Witness ==
    /\ mgmt.op = "add_edge" /\ mgmt.ok /\ mgmt.again
    /\ {0, 1} \in joined
    /\ {1} \in joined

\* C13: add_edge(u, v) with u or v not a node returns an error and leaves
\* every neighbor list, the existing endpoint's included, as it was
C13_FailedEdgeChangesNothing ==
    [][\A u \in TargetIds, v \in TargetIds :
          (add_edge(u, v) /\ (~contains_key(nodes, u) \/ ~contains_key(nodes, v)))
              => (~mgmt'.ok /\ nodes' = nodes)]_vars

\* add_edge has failed on a graph that has a node with neighbors
C13_Witness ==
    /\ mgmt.op = "add_edge" /\ ~mgmt.ok
    /\ \E u \in DOMAIN nodes : nodes[u].neighbors # <<>>
    /\ \E u \in NodeIds : ~contains_key(nodes, u)

\* C14: add_node(id, agent) with an id already in the graph replaces the node
\* wholesale: the node then has the new agent, no neighbors and an empty local
\* registry, the graph has as many nodes as before, and every other node's
\* agent and local registry, and the global registry, are as they were
C14_ReplacesWholesale ==
    [][\A id \in NodeIds, a \in Agents :
          (add_node(id, a) /\ contains_key(nodes, id)) =>
              /\ nodes'[id] = [agent |-> a, neighbors |-> <<>>,
                               tool_registry |-> ToolRegistry_new]
              /\ Cardinality(DOMAIN nodes') = Cardinality(DOMAIN nodes)
              /\ \A o \in DOMAIN nodes \ {id} :
                    /\ contains_key(nodes', o)
                    /\ nodes'[o].agent = nodes[o].agent
                    /\ nodes'[o].tool_registry = nodes[o].tool_registry
              /\ tool_registry' = tool_registry]_vars

\* a node was added again that had a neighbor (which still lists it), beside
\* a node with a local tool and under a global registry with a tool
C14_Witness ==
    /\ mgmt.op = "add_node" /\ mgmt.again
    /\ tool_registry.tools # EmptyMap
    /\ \E u \in DOMAIN nodes, v \in DOMAIN nodes :
          /\ u # v
          /\ contains(nodes[u].neighbors, v)
          /\ nodes[u].tool_registry.tools # EmptyMap
          /\ nodes[v].neighbors = <<>>

\* C34: register_tool_for_node(id, tool, f) with an id that is not a node
\* returns an error and changes neither the global registry nor any node;
\* with an id that is a node it returns Ok, puts the tool in that node's local
\* registry only, and leaves every other node, the node's agent and neighbors,
\* and the global registry as they were
C34_ToolForNodeOnly ==
    [][\A id \in TargetIds, r \in ViewRegistrations :
          register_tool_for_node(id, r[1], r[2]) =>
              /\ tool_registry' = tool_registry
              /\ IF contains_key(nodes, id)
                 THEN /\ mgmt'.ok
                      /\ DOMAIN nodes' = DOMAIN nodes
                      /\ nodes'[id].tool_registry =
                            ToolRegistry_register_tool(nodes[id].tool_registry, r[1], r[2])
                      /\ nodes'[id].agent = nodes[id].agent
                      /\ nodes'[id].neighbors = nodes[id].neighbors
                      /\ \A o \in DOMAIN nodes \ {id} : nodes'[o] = nodes[o]
                 ELSE /\ ~mgmt'.ok
                      /\ nodes' = nodes]_vars

\* the call has failed for a missing node, in a graph that has a node without
\* local tools, a node with one, and an empty global registry
C34_Witness ==
    /\ mgmt.op = "register_tool_for_node" /\ ~mgmt.ok
    /\ tool_registry.tools = EmptyMap
    /\ \E u \in DOMAIN nodes, v \in DOMAIN nodes :
          /\ nodes[u].tool_registry.tools = EmptyMap
          /\ nodes[v].tool_registry.tools # EmptyMap

\* C35: in every graph built by add_node and add_edge, v is in u's neighbor
\* list iff u is in v's neighbor list, and every listed neighbor is a node
C35_SymmetricAdjacency ==
    \A u \in DOMAIN nodes :
       \A i \in 1..Len(nodes[u].neighbors) :
          LET v == nodes[u].neighbors[i]
          IN /\ contains_key(nodes, v)
             /\ contains(nodes[v].neighbors, u)

\* the part of C35 the code keeps: every listed neighbor is a node of the graph
C35_NoDanglingNeighbor ==
    \A u \in DOMAIN nodes :
       \A i \in 1..Len(nodes[u].neighbors) : contains_key(nodes, nodes[u].neighbors[i])

----------------------------------------------------------------------------
(* Properties of RetryAgent::run *)

\* the inner invocations, and the sleeps, of the run, in order
Runs == SelectSeq(events, LAMBDA e : e.ev = "run")
Sleeps == SelectSeq(events, LAMBDA e : e.ev = "sleep")

RECURSIVE Outputs(_, _, _)
\* what n successive invocations of agent on input `in` return
Outputs(agent, in, n) ==
    IF n = 0 THEN <<>>
    ELSE LET r == Inner_run(agent, in, ToolRegistry_new)
         IN <<[output |-> r.output, next_id |-> r.next_id]>>
                \o Outputs(r.agent, in, n - 1)

\* the inner agent, as the run found it, fails on exactly its first k
\* invocations (of the max_retries + 1 a run can make)
FailsExactlyFirst(k) ==
    LET outs == Outputs(retry_run.inner0, retry_run.input, retry_agent.max_retries + 1)
    IN /\ \A i \in 1..k : should_retry(retry_agent, outs[i].output)
       /\ \A i \in (k + 1)..(retry_agent.max_retries + 1) :
             ~should_retry(retry_agent, outs[i].output)

\* C15: when the inner agent fails on exactly its first k invocations and
\* max_retries >= k, run returns the first non-failing output and has
\* invoked the inner agent exactly k + 1 times
C15_SucceedsAfterKFailures ==
    retry_run.pc = "returned" =>
        \A k \in 0..retry_agent.max_retries :
            FailsExactlyFirst(k) =>
                /\ retry_run.ret =
                      Outputs(retry_run.inner0, retry_run.input, k + 1)[k + 1]
                /\ ~should_retry(retry_agent, retry_run.ret.output)
                /\ Len(Runs) = k + 1

\* the run of the test suite: two failures, then the success, under
\* max_retries = 3
C15_Witness ==
    /\ retry_run.pc = "returned"
    /\ retry_run.inner0 = FlakeyAgent(2)
    /\ retry_agent.max_retries = 3
    /\ FailsExactlyFirst(2)
    /\ retry_run.ret.output = "Success: test"
    /\ Len(Runs) = 3

\* every allowed attempt of the run was made and failed
AllAttemptsFailed ==
    /\ retry_run.pc = "returned"
    /\ Len(Runs) = retry_agent.max_retries + 1
    /\ \A i \in 1..Len(Runs) : should_retry(retry_agent, Runs[i].output)

\* C16: when every allowed attempt fails, run returns the message
\* "All <max_retries> retries exhausted. Last output: <last output>" with the
\* last attempt's next id
C16_ExhaustedMessage ==
    AllAttemptsFailed =>
        /\ retry_run.ret.output =
              "All " \o ToString(retry_agent.max_retries)
                     \o " retries exhausted. Last output: "
                     \o Runs[Len(Runs)].output
        /\ retry_run.ret.next_id = Runs[Len(Runs)].next_node

\* C17: an attempt whose output is not a failure, or whose index is
\* max_retries, is the last one of the run, and run returns its output and
\* next id unchanged; what run returns is always the pair of one attempt
C17_ReturnsAttemptVerbatim ==
    /\ \A i \in 1..Len(Runs) :
          (~should_retry(retry_agent, Runs[i].output)
               \/ Runs[i].attempt = retry_agent.max_retries) =>
              /\ i = Len(Runs)
              /\ retry_run.pc = "returned"
              /\ retry_run.ret.output = Runs[i].output
              /\ retry_run.ret.next_id = Runs[i].next_node
    /\ retry_run.pc = "returned" =>
          \E i \in 1..Len(Runs) :
              /\ retry_run.ret.output = Runs[i].output
              /\ retry_run.ret.next_id = Runs[i].next_node

\* a run whose last allowed attempt failed and named a next node
C17_Witness ==
    /\ AllAttemptsFailed
    /\ retry_agent.max_retries >= 1
    /\ retry_run.ret.output = "Routing 'error' to node 1"
    /\ retry_run.ret.next_id = Some(1)

\* C18: run invokes the inner agent at least once and at most
\* max_retries + 1 times, always with its own input; attempt 0 comes first
\* with no sleep before it, each attempt i >= 1 comes right after one sleep
\* of calculate_delay(i - 1), nothing is slept after the attempt returned,
\* and so the sleeps are one fewer than the invocations
C18_AttemptsAndSleeps ==
    /\ Len(Runs) <= retry_agent.max_retries + 1
    /\ \A j \in 1..Len(events) :
          IF j % 2 = 1
          THEN /\ events[j].ev = "run"
               /\ events[j].attempt = (j - 1) \div 2
               /\ events[j].input = retry_run.input
          ELSE /\ events[j].ev = "sleep"
               /\ events[j].delay = calculate_delay(retry_agent, (j \div 2) - 1)
    /\ retry_run.pc = "returned" =>
          /\ Len(Runs) >= 1
          /\ events[Len(events)].ev = "run"
          /\ Len(Sleeps) = Len(Runs) - 1
    /\ (retry_run.pc = "returned" /\ retry_agent.max_retries = 0) =>
          Len(Runs) = 1 /\ Len(Sleeps) = 0

\* four attempts under the linear strategy: sleeps of 100, 150 and the max 180
C18_Witness ==
    /\ retry_run.pc = "returned"
    /\ retry_agent.strategy.kind = "Linear"
    /\ Len(Runs) = 4
    /\ <<Sleeps[1].delay, Sleeps[2].delay, Sleeps[3].delay>> = <<100, 150, 180>>

\* C32: the delay of attempt index a is, in whole milliseconds: under Fixed
\* the configured delay; under Linear initial + increment * a, or max when
\* that is more than max; under ExponentialBackoff the whole part of
\* base * multiplier^a, or max when that is more than max. Under Linear, and
\* under ExponentialBackoff with multiplier >= 1, the delay never exceeds max
\* and does not decrease from one index to the next. The k-th sleep of a run
\* is the delay of index k - 1.
C32_DelayFormulas ==
    LET s == retry_agent.strategy
        d(a) == calculate_delay(retry_agent, a)
        Attempts == 0..(MaxRetries + 1)
    IN /\ s.kind = "Fixed" => \A a \in Attempts : d(a) = s.delay
       /\ s.kind = "Linear" =>
             \A a \in Attempts :
                IF s.initial + s.increment * a <= s.max
                THEN d(a) = s.initial + s.increment * a
                ELSE d(a) = s.max
       /\ s.kind = "ExponentialBackoff" =>
             \A a \in Attempts :
                LET n == s.base * s.multiplier.num ^ a
                    dn == s.multiplier.den ^ a
                IN IF n <= s.max * dn
                   THEN d(a) * dn <= n /\ n < (d(a) + 1) * dn
                   ELSE d(a) = s.max
       /\ (s.kind = "Linear"
               \/ (s.kind = "ExponentialBackoff"
                      /\ s.multiplier.num >= s.multiplier.den)) =>
             \A a \in Attempts :
                /\ d(a) <= s.max
                /\ d(a) <= d(a + 1)
       /\ \A k \in 1..Len(Sleeps) : Sleeps[k].delay = d(k - 1)

\* four attempts under the exponential strategy with multiplier 1.5 and max
\* 200: sleeps of 100, 150 and, for 225, the max 200
C32_Witness ==
    /\ retry_run.pc = "returned"
    /\ retry_agent.strategy = ExponentialBackoff(100, 200, 3, 2)
    /\ Len(Runs) = 4
    /\ <<Sleeps[1].delay, Sleeps[2].delay, Sleeps[3].delay>> = <<100, 150, 200>>

\* under the multiplier 0.5 the delays fall, and the third is the whole part
\* of 12.5
C32_Falling ==
    /\ retry_agent.strategy = ExponentialBackoff(100, 10000, 1, 2)
    /\ <<calculate_delay(retry_agent, 0), calculate_delay(retry_agent, 1),
         calculate_delay(retry_agent, 3)>> = <<100, 50, 12>>

\* outputs an inner agent may give, beside those of the run
SampleOutputs ==
    {"", "ok", "Error: temporary failure", "an error", "Task FAILED", "it Failed",
     "NullPointerException", "EXCEPTION", "err or", "fail", "Success: test"}

\* the word occurs in the text, letters compared without their case
ContainsIgnoringCase(text, word) ==
    \E i \in 1..(Len(text) - Len(word) + 1) :
       \A j \in 1..Len(word) :
          char_to_lowercase(SubSeq(text, i + j - 1, i + j - 1)) = SubSeq(word, j, j)

\* C33: with no custom predicate an output is a failure iff it is empty or
\* contains "error", "failed" or "exception", case ignored; with a custom
\* predicate that predicate alone decides, and a first output it accepts is
\* returned at once: one invocation, no sleep
C33_FailureTest ==
    LET outs == SampleOutputs \cup {Runs[i].output : i \in 1..Len(Runs)}
    IN /\ \A out \in outs :
             should_retry(retry_agent, out)
                 = IF retry_agent.retry_condition.some
                   THEN str_contains(out, "error")
                   ELSE \/ out = ""
                        \/ ContainsIgnoringCase(out, "error")
                        \/ ContainsIgnoringCase(out, "failed")
                        \/ ContainsIgnoringCase(out, "exception")
       /\ (/\ retry_agent.retry_condition.some
           /\ Len(Runs) >= 1
           /\ ~str_contains(Runs[1].output, "error")) =>
             /\ retry_run.pc = "returned"
             /\ Len(events) = 1
             /\ retry_run.ret.output = Runs[1].output
             /\ retry_run.ret.next_id = Runs[1].next_node

\* under the predicate output.contains("error") and max_retries >= 1, the
\* first output of an agent that keeps failing, "Error: temporary failure",
\* was returned at once
C33_Witness ==
    /\ retry_run.pc = "returned"
    /\ retry_agent.retry_condition.some
    /\ retry_agent.max_retries >= 1
    /\ retry_run.inner0 = FlakeyAgent(2)
    /\ Len(events) = 1
    /\ retry_run.ret.output = "Error: temporary failure"
    /\ ContainsIgnoringCase(retry_run.ret.output, "error")

----------------------------------------------------------------------------
(* Properties of StatefulAgent *)

\* the last n elements of the Vec v (all of it when it has fewer)
LastN(v, n) == SubSeq(v, Len(v) - min(n, Len(v)) + 1, Len(v))

\* C19: with max_history = m and no processor touching the history, n runs
\* from an empty state leave in history exactly the last min(n, m) inputs,
\* in the order they were given
C19_HistoryIsLastInputs ==
    since_empty.valid =>
        stateful.state.history
            = LastN(since_empty.inputs, min(Len(since_empty.inputs), stateful.max_history))

\* max_history = 5 and eight runs: history is the 4th through 8th input
C19_Witness ==
    /\ since_empty.valid
    /\ last_call.kind = "run"
    /\ stateful.max_history = 5
    /\ Len(since_empty.inputs) = 8
    /\ since_empty.inputs[3] # since_empty.inputs[4]
    /\ stateful.state.history = SubSeq(since_empty.inputs, 4, 8)
    /\ stateful.state.history[1] # stateful.state.history[5]

\* C20: after every return of run the history has at most max_history
\* entries, whatever calls came before and whatever processor is configured
C20_HistoryBounded ==
    last_call.kind = "run" => Len(stateful.state.history) <= stateful.max_history

\* `after` is `before` with input `in` pushed, less at most its oldest entry
Pushed(before, in, after) ==
    after \in {Append(before, in), Tail(Append(before, in))}

\* C21: every run, before it calls the processor (if any), adds exactly one
\* to execution_count and pushes the raw input onto history, so that the
\* processor is handed the updated state; with no processor the n-th run on
\* a fresh wrapper reports "execution #n" and returns no next id
C21_UpdatesBeforeProcessor ==
    [][\A in \in StateInputs :
          stateful_run(in) =>
              LET before == stateful.state
                  updated == IF stateful.processor.some
                             THEN last_call'.seen.v
                             ELSE stateful'.state
              IN /\ last_call'.seen.some = stateful.processor.some
                 /\ updated.execution_count = before.execution_count + 1
                 /\ Pushed(before.history, in, updated.history)
                 /\ updated.data = before.data
                 /\ updated.context = before.context
                 /\ (~stateful.processor.some /\ since_empty.valid) =>
                       /\ str_contains(last_call'.output,
                              "(execution #"
                                  \o ToString(Len(since_empty.inputs) + 1) \o ",")
                       /\ last_call'.next_id = None]_vars

\* a second run with the documented processor: the processor was handed the
\* count and the history that run had just updated
C21_Witness ==
    /\ last_call.kind = "run"
    /\ last_call.seen.some
    /\ last_call.seen.v.execution_count = 3
    /\ Len(last_call.seen.v.history) = 2
    /\ last_call.seen.v.history[2] = last_call.input
    /\ stateful.state.execution_count = 4

\* C22: a fresh wrapper that loads what save_state returned has the data,
\* the history (in the same order), the context and the execution_count of
\* the saved state, and save_state leaves the state as it was
C22_SnapshotRoundTrip ==
    [][/\ new_agent_load_state =>
             /\ last_call'.ok
             /\ new_agent'.v.state.data = stateful.state.data
             /\ new_agent'.v.state.history = stateful.state.history
             /\ new_agent'.v.state.context = stateful.state.context
             /\ new_agent'.v.state.execution_count = stateful.state.execution_count
       /\ \A o \in Orders(DOMAIN stateful.state.data) :
             save_state(o) => (last_call'.ok /\ stateful' = stateful)]_vars

\* a fresh wrapper has loaded a saved state with two data entries, a context
\* with a quote in it, four entries of history and a count of four
C22_Witness ==
    /\ new_agent.some
    /\ last_call.kind = "new_agent.load_state"
    /\ Cardinality(DOMAIN new_agent.v.state.data) = 2
    /\ new_agent.v.state.context.some
    /\ str_contains(new_agent.v.state.context.v, "\"")
    /\ Len(new_agent.v.state.history) = 4
    /\ new_agent.v.state.execution_count = 4

\* C38: load_state of a text that is no AgentState returns an error and
\* leaves data, history, context and execution_count as they were; of a text
\* that is one, it returns Ok and the state is the state read, whole
C38_LoadAllOrNothing ==
    [][\A json \in LoadTexts :
          load_state(json) =>
              IF LoadResults[json].ok
              THEN /\ last_call'.ok
                   /\ stateful'.state = LoadResults[json].v
              ELSE /\ ~last_call'.ok
                   /\ stateful'.state = stateful.state]_vars

\* load_state has failed on a text whose first three fields are those of an
\* AgentState, and the state is still the one of three runs
C38_Witness ==
    /\ last_call.kind = "load_state"
    /\ ~last_call.ok
    /\ str_contains(last_call.input, "\"history\":[\"z\"]")
    /\ stateful.state.execution_count = 3
    /\ Len(stateful.state.history) = 3
    /\ stateful.state.data = EmptyMap

\* C31: the Mutex is held from the first statement of run to its return,
\* through the processor and through the default response, and is free once
\* run has returned on either path, so that a call made then does not wait;
\* a reader, who needs the Mutex, reads only between runs, never a state
\* with the count incremented and the input not yet pushed
C31_LockedThroughRun ==
    /\ state_mutex.pc # "idle" => state_mutex.held
    /\ state_mutex.pc = "idle" => ~state_mutex.held
    /\ state_mutex.read_at \in {"none", "idle"}

\* run has returned on both paths, the last time out of the processor, and
\* the state was read after that
C31_Witness ==
    /\ state_mutex.returned = {"processed", "formatted"}
    /\ stateful.processor.some
    /\ stateful.state.execution_count >= 2
    /\ last_call.kind = "get_state"
    /\ last_call.seen = Seen(stateful.state)
    /\ state_mutex.read_at = "idle"
    /\ ~state_mutex.held

----------------------------------------------------------------------------
(* Properties of ParallelAgent::run *)

\* what the i-th added agent returns for the input of the run
OutputOf(i) ==
    Agent_run(parallel.agents[i].agent, par_run.input, tool_registry).output

\* C23: whatever the order in which the inner agents complete, the list
\* handed to combine_results has at index i the output of the i-th added
\* agent, and under JsonArray run returns the JSON array of these outputs in
\* the order the agents were added
C23_RegistrationOrder ==
    par_run.how = "joined" =>
        /\ par_run.combined.some
        /\ Len(par_run.combined.v) = Len(parallel.agents)
        /\ \A i \in 1..Len(parallel.agents) : par_run.combined.v[i] = OutputOf(i)
        /\ parallel.strategy = "JsonArray" =>
              par_run.ret.output =
                  "[" \o json_array([i \in 1..Len(parallel.agents) |-> OutputOf(i)]) \o "]"

\* three agents with three outputs, added in one order, completed in
\* another (the third, the first, the second), under JsonArray
C23_Witness ==
    /\ par_run.how = "joined"
    /\ parallel.strategy = "JsonArray"
    /\ par_run.finished = <<3, 1, 2>>
    /\ par_run.ret.output
          = "[\"Routing 'hi' to node 1\",\"Echo: hi\",\"Routing 'hi' to node 0\"]"

TimedOut == [output |-> "Parallel execution timed out", next_id |-> None]
Unfinished == {i \in 1..Len(par_run.futures) : par_run.futures[i].st # "done"}

\* C24, as stated: once the deadline has passed with an inner agent not yet
\* finished, run returns the timed-out message and combines nothing
C24_DeadlineAlwaysWins ==
    (par_run.pc = "returned" /\ par_run.late) =>
        (par_run.ret = TimedOut /\ ~par_run.combined.some)

\* C24, amended: if, when run is polled after the deadline, some inner
\* agent has not finished, run returns exactly "Parallel execution timed
\* out" with no next id, combine_results is not called and no output of an
\* inner agent is in the result; run returns with an unfinished inner agent
\* in no other way, and inner agents that all finish before that poll, be it
\* after the deadline, have their results combined
C24_TimedOutAtPoll ==
    /\ par_run.how = "timeout" =>
          /\ parallel.timeout.some /\ par_run.elapsed /\ Unfinished # {}
          /\ par_run.ret = TimedOut
          /\ ~par_run.combined.some
          /\ \A i \in 1..Len(par_run.futures) :
                par_run.futures[i].st = "done"
                    => ~str_contains(par_run.ret.output, par_run.futures[i].output)
    /\ (par_run.pc = "returned" /\ Unfinished # {}) => par_run.how = "timeout"
    /\ par_run.how = "joined" => (Unfinished = {} /\ par_run.combined.some)

\* run has timed out with one inner agent finished and another still running
C24_Witness ==
    /\ par_run.how = "timeout"
    /\ \E i, j \in 1..Len(par_run.futures) :
          /\ par_run.futures[i].st = "done"
          /\ par_run.futures[i].output # ""
          /\ par_run.futures[j].st = "dropped"
          /\ Len(par_run.invoked[j]) = 1

\* C25: with no inner agent, run returns "No agents configured for parallel
\* execution" with no next id, makes no future and does not call
\* combine_results, whatever the strategy and the timeout
C25_NoAgents ==
    (par_run.pc = "returned" /\ parallel.agents = <<>>) =>
        /\ par_run.how = "empty"
        /\ par_run.ret = [output |-> "No agents configured for parallel execution",
                          next_id |-> None]
        /\ ~par_run.combined.some
        /\ par_run.futures = <<>>

\* run has returned for no agents under Custom with a timeout configured
C25_Witness ==
    /\ par_run.pc = "returned"
    /\ parallel.agents = <<>>
    /\ parallel.strategy = "Custom"
    /\ parallel.timeout.some
    /\ par_run.how = "empty"

\* C29: every call of an inner agent's run is given the input of the run
\* and is made under the agent's own lock, which is held while the agent
\* runs; no inner agent is called twice, and each is called once when the
\* results are joined; no future holds two locks; a future that has not
\* started finds the lock it waits for free (so none waits for another), and
\* once all have finished no lock is held and run has only to return
C29_OncePerAgentUnderItsLock ==
    /\ \A i \in 1..Len(par_run.futures) :
          /\ Len(par_run.invoked[i]) <= 1
          /\ \A k \in 1..Len(par_run.invoked[i]) :
                /\ par_run.invoked[i][k].input = par_run.input
                /\ par_run.invoked[i][k].locked
          /\ par_run.futures[i].st = "running" => parallel.agents[i].lock = i
          /\ par_run.how = "joined" => Len(par_run.invoked[i]) = 1
          /\ par_run.futures[i].st = "created" => parallel.agents[lock_of(i)].lock = 0
          /\ par_run.futures[i].st \in {"created", "running"} => par_run.pc = "joining"
    /\ \A f \in 1..Len(parallel.agents) :
          Cardinality({j \in 1..Len(parallel.agents) : parallel.agents[j].lock = f}) <= 1
    /\ (par_run.pc = "joining" /\ Unfinished = {}) =>
          \A j \in 1..Len(parallel.agents) : parallel.agents[j].lock = 0

\* with no timeout, three inner agents have run and finished in another
\* order than they were added, each called once
C29_Witness ==
    /\ par_run.how = "joined"
    /\ ~parallel.timeout.some
    /\ par_run.finished = <<2, 3, 1>>
    /\ \A i \in 1..3 : Len(par_run.invoked[i]) = 1

\* C30: when run has returned for a timeout no future is left running and no
\* lock is held; between runs every lock is free, so that the futures of
\* the next run find their locks free
C30_NothingLeftBehind ==
    /\ par_run.how = "timeout" =>
          \A i \in 1..Len(par_run.futures) :
              /\ par_run.futures[i].st \in {"done", "dropped"}
              /\ parallel.agents[i].lock = 0
    /\ par_run.pc \in {"idle", "returned"} =>
          \A i \in 1..Len(parallel.agents) : parallel.agents[i].lock = 0
    /\ \A i \in 1..Len(par_run.futures) :
          par_run.futures[i].st = "created" => parallel.agents[i].lock = 0

\* run has timed out while two inner agents were running under their locks
C30_Witness ==
    /\ par_run.how = "timeout"
    /\ Cardinality({i \in 1..Len(par_run.futures) :
                       /\ par_run.futures[i].st = "dropped"
                       /\ Len(par_run.invoked[i]) = 1}) = 2
    /\ \A i \in 1..Len(parallel.agents) : parallel.agents[i].lock = 0

\* C37: however run returns (no agents, results combined under any
\* strategy, timed out) its next id is None, whatever next ids the inner
\* agents gave
C37_NoNextId ==
    par_run.pc = "returned" => par_run.ret.next_id = None

\* the results of three inner agents were combined; each of them gave a next
\* id of its own
C37_Witness ==
    /\ par_run.how = "joined"
    /\ Len(parallel.agents) = 3
    /\ \A i \in 1..3 :
          Agent_run(parallel.agents[i].agent, par_run.input, tool_registry).next_id.some
    /\ par_run.ret.next_id = None

----------------------------------------------------------------------------
(* Properties of RouterAgent::run *)

\* whether the pattern of the rule matches the input: as it is written when
\* the agent is case sensitive, and else with its letters (not the letters
\* that name its classes) matching in either case
RuleMatches(agent, rule, in) ==
    LET re == Regex_new(rule.pattern)
        folded == [re EXCEPT !.alternatives =
                      [k \in 1..Len(@) |->
                          [j \in 1..Len(@[k]) |->
                              IF @[k][j].class THEN @[k][j]
                              ELSE [@[k][j] EXCEPT !.c = to_lowercase(@)]]]]
    IN /\ re.ok
       /\ IF agent.case_sensitive THEN is_match(re, in)
          ELSE is_match(folded, to_lowercase(in))

\* the rules of the agent whose pattern matches the input
Matching(agent, in) ==
    {i \in 1..Len(agent.routes) : RuleMatches(agent, agent.routes[i], in)}

\* C26: run returns as next id the target of the first rule, in the order
\* the rules were added, whose pattern matches the input, and with no such
\* rule the default route (None when none was set)
C26_FirstMatch ==
    routed.called =>
        LET hits == Matching(routed.agent, routed.input)
        IN routed.next_id =
              IF hits = {} THEN routed.agent.default_route
              ELSE Some(routed.agent.routes[CHOOSE i \in hits : \A j \in hits : i <= j]
                            .target_node)

----------------------------------------------------------------------------
(* Properties of ValidatorAgent::run *)

\* the rules of the agent that fail on the input, and their messages
FailingRules(agent, in) ==
    {i \in 1..Len(agent.rules) : ~check(agent.rules[i], in).ok}
MessageOf(agent, in, i) ==
    agent.rules[i].name \o ": " \o check(agent.rules[i], in).v

----------------------------------------------------------------------------
(* Properties of the view Graph::run hands to an agent *)

\* the names get_tools of the view lists (the same in every iteration order)
Listed(view) ==
    names(CombinedToolRegistry_get_tools(view,
              CHOOSE o \in Orders(DOMAIN view.primary.tools) : TRUE,
              CHOOSE o \in Orders(DOMAIN view.secondary.tools) : TRUE))

\* what execute_tool of the view does for arguments "{}"
Executed(view, name) == CombinedToolRegistry_execute_tool(view, name, "{}")

\* the view is the node's registry over the shared one
ViewIsLocalOverShared(c) ==
    /\ c.registry.primary = nodes[c.node].tool_registry
    /\ c.registry.secondary = tool_registry

\* a tool registered only globally is listed and executable at every node
SharedToolEverywhere(c) ==
    \A t \in DOMAIN tool_registry.functions \ DOMAIN nodes[c.node].tool_registry.functions :
        /\ t \in Listed(c.registry)
        /\ Executed(c.registry, t).invoked =
              <<[function |-> tool_registry.functions[t], args |-> "{}"]>>
        /\ Executed(c.registry, t).ret = call(tool_registry.functions[t], "{}")

\* a tool registered only for other nodes is neither listed nor executable
LocalToolElsewhereHidden(c) ==
    \A t \in ToolNames :
        (/\ ~contains_key(tool_registry.functions, t)
         /\ ~contains_key(nodes[c.node].tool_registry.functions, t)) =>
            /\ t \notin Listed(c.registry)
            /\ Executed(c.registry, t).invoked = <<>>
            /\ Executed(c.registry, t).ret = Err("Tool '" \o t \o "' not found")

\* a tool registered both globally and for the node executes the node's callable
LocalToolShadowsShared(c) ==
    \A t \in DOMAIN tool_registry.functions \cap DOMAIN nodes[c.node].tool_registry.functions :
        /\ Executed(c.registry, t).invoked =
              <<[function |-> nodes[c.node].tool_registry.functions[t], args |-> "{}"]>>
        /\ Executed(c.registry, t).ret =
              call(nodes[c.node].tool_registry.functions[t], "{}")

\* C9: the view handed to node n's agent is n's registry over the shared one:
\* a tool registered for both executes n's callable, a tool registered only
\* globally is listed and executable at every node, a tool registered only
\* for n is neither listed nor executable at any other node
C9_ViewIsOverlay ==
    \A i \in 1..Len(calls) :
        /\ ViewIsLocalOverShared(calls[i])
        /\ LocalToolShadowsShared(calls[i])
        /\ SharedToolEverywhere(calls[i])
        /\ LocalToolElsewhereHidden(calls[i])

\* what of C9 the code does: everything but the shadowing of a shared tool
C9_ViewExceptShadowing ==
    \A i \in 1..Len(calls) :
        /\ ViewIsLocalOverShared(calls[i])
        /\ SharedToolEverywhere(calls[i])
        /\ LocalToolElsewhereHidden(calls[i])

====
